---- MODULE Spec2Model ----
(***************************************************************************)
(* A model of fa-journaliser: the page classifier (JournalInfo), the       *)
(* persist operation (Journal.save over Database.add_entry), the artifact  *)
(* cache (the "store" directory) and the crawl engine of download.py.      *)
(*                                                                         *)
(* A page is modelled by the features the classifier reads from it, an     *)
(* artifact by the page written to its file and the file's mtime, a        *)
(* database row by its five columns.  Journal IDs are scaled down to       *)
(* 0..MaxId; the network is a nondeterministic choice of the page (or a    *)
(* transport failure) each request returns.                                *)
(***************************************************************************)
EXTENDS Integers, Sequences, FiniteSets, TLC

VARIABLES
    store,          \* artifact cache: journal id -> [page, mtime]
    db,             \* journals table: journal id -> row
    now,            \* wall clock (datetime.datetime.now())
    upserts,        \* history: the add_entry calls of the last step that made any
    pc,             \* per task: its position ("off" when the task is not running)
    next_batch,     \* per task: the IDs handed to download_many / download_and_save
    next_journals,  \* per task: the journals of that batch, as downloaded so far
    last_good_id,   \* work_forwards: last_good_id
    f_max_id,       \* work_forwards: max_id (NONE when not set)
    current_journal,\* work_backwards: current_journal.journal_id
    b_min_id,       \* work_backwards: min_id
    g_min_id,       \* fill_gaps: min_id
    g_max_id,       \* fill_gaps: max_id (NONE when not set)
    total_expected, \* fill_gaps: total_expected
    g_todo,         \* fill_gaps: the missing IDs the running loop has still to visit
    g_phase,        \* fill_gaps: "files" or "entries", the loop that is running
    task_queue,     \* TaskWorker: task_queue, the journal IDs of the queued import jobs
    w_pc,           \* TaskWorker: per run_worker task, its position
    w_job,          \* TaskWorker: per run_worker task, the journal ID of the job it awaits
    i_min_id,       \* import_downloads: min_id
    i_max_id,       \* import_downloads: max_id (NONE when not set)
    self_journal_id,\* Journal: self.journal_id of the journal whose file name is asked for
    file_path,      \* Journal.journal_html_filename of that journal, once computed
    file_journal,   \* Journal.from_file_path of that path, once called
    display_name,   \* JournalInfo: the text of the <username> element of the page header
    author_username,\* JournalInfo: author_username
    status_prefix,  \* JournalInfo: what author_status_prefix gave, once read
    next_infos,     \* per worker: the registered-users count of the site status of each
                    \* journal of the batch it saved last (NONE: the page has none)
    peak_time_active\* work_backwards: peak_time_active

dvars == <<next_batch, next_journals>>
fvars == <<last_good_id, f_max_id>>
bvars == <<current_journal, b_min_id>>
gvars == <<g_min_id, g_max_id, total_expected, g_todo, g_phase>>
ivars == <<task_queue, w_pc, w_job, i_min_id, i_max_id>>
pvars == <<self_journal_id, file_path, file_journal>>
avars == <<display_name, author_username, status_prefix>>
kvars == <<next_infos, peak_time_active>>
uvars == <<pvars, avars, kvars>>
vars == <<store, db, now, upserts, pc, dvars, fvars, bvars, gvars, ivars, uvars>>

Tasks == {"fwd", "bwd", "gaps", "test", "run", "update", "batch", "peak"}

----------------------------------------------------------------------------
(* Bounds of the model *)

MaxId == 5
MaxClock == 1
BatchSize == 2

NONE == -1
IDs == 0..MaxId

----------------------------------------------------------------------------
(* Pages: what JournalInfo reads from the content *)

Page(complete, syserr, msg, private, disabled, pending, parses, login) ==
    [complete |-> complete, syserr |-> syserr, msg |-> msg, private |-> private,
     disabled |-> disabled, pending |-> pending, parses |-> parses, login |-> login]

NOT_IN_DB == "The journal you are trying to find is not in our database."
ISE == "Internal server error."

OkPage       == Page(TRUE, FALSE, {}, FALSE, "", "", TRUE, "")
BadMarkup    == Page(TRUE, FALSE, {}, FALSE, "", "", FALSE, "")
Truncated    == Page(FALSE, FALSE, {}, FALSE, "", "", TRUE, "")
TruncatedNotFound == Page(FALSE, TRUE, {NOT_IN_DB}, FALSE, "", "", FALSE, "")
NotFoundPage == Page(TRUE, TRUE, {NOT_IN_DB}, FALSE, "", "", FALSE, "")
IsePage      == Page(TRUE, TRUE, {ISE}, FALSE, "", "", FALSE, "")
OtherSysErr  == Page(TRUE, TRUE, {}, FALSE, "", "", FALSE, "")
PrivatePage  == Page(TRUE, FALSE, {}, TRUE, "", "", FALSE, "")
DisabledPage == Page(TRUE, FALSE, {}, FALSE, "someuser", "", FALSE, "")
PendingPage  == Page(TRUE, FALSE, {}, FALSE, "", "its owner", FALSE, "")

LoggedIn(p) == [p EXCEPT !.login = "archiver"]

\* what an anonymous request may return, and what a request with cookies may
AnonPages == {OkPage, BadMarkup, Truncated, TruncatedNotFound, NotFoundPage, IsePage,
              OtherSysErr, PrivatePage, DisabledPage, PendingPage}
AuthPages == {LoggedIn(OkPage), LoggedIn(PrivatePage), LoggedIn(NotFoundPage)}

is_data_incomplete(p) == ~p.complete
is_system_error(p) == p.syserr
journal_deleted(p) == IF is_system_error(p) THEN NOT_IN_DB \in p.msg ELSE FALSE
account_private(p) == p.private
account_disabled_username(p) == p.disabled
pending_deletion_by(p) == p.pending

\* mutant of check_errors: the system error test comes before the deleted test
check_errors_reordered(p) ==
    IF is_data_incomplete(p) THEN "DataIncomplete"
    ELSE IF is_system_error(p) THEN "FASystemError"
    ELSE IF journal_deleted(p) THEN "JournalNotFound"
    ELSE IF account_private(p) THEN "RegisteredUsersOnly"
    ELSE IF account_disabled_username(p) # "" THEN "AccountDisabled"
    ELSE IF pending_deletion_by(p) # "" THEN "PendingDeletion"
    ELSE "None"

\* mutant of check_errors: the test for incomplete data is missing
check_errors_no_incomplete(p) ==
    IF journal_deleted(p) THEN "JournalNotFound"
    ELSE IF is_system_error(p) THEN "FASystemError"
    ELSE IF account_private(p) THEN "RegisteredUsersOnly"
    ELSE IF account_disabled_username(p) # "" THEN "AccountDisabled"
    ELSE IF pending_deletion_by(p) # "" THEN "PendingDeletion"
    ELSE "None"

\* JournalInfo.check_errors: the exception raised, "None" when it returns
check_errors(p) ==
    IF is_data_incomplete(p) THEN "DataIncomplete"
    ELSE IF journal_deleted(p) THEN "JournalNotFound"
    ELSE IF is_system_error(p) THEN "FASystemError"
    ELSE IF account_private(p) THEN "RegisteredUsersOnly"
    ELSE IF account_disabled_username(p) # "" THEN "AccountDisabled"
    ELSE IF pending_deletion_by(p) # "" THEN "PendingDeletion"
    ELSE "None"

\* JournalInfo.to_json: the payload; it raises when the markup cannot be extracted
to_json_raises(p) == ~p.parses
to_json(id, p) == [journal_id |-> id, page |-> p]

----------------------------------------------------------------------------
(* Journal.journal_html_filename and Journal.from_file_path.  A string is the  *)
(* sequence of its characters, a path the sequence of its components.          *)

Digit == <<"0", "1", "2", "3", "4", "5", "6", "7", "8", "9">>
IsDigit(c) == \E d \in DOMAIN Digit : Digit[d] = c
DigitValue(c) == (CHOOSE d \in DOMAIN Digit : Digit[d] = c) - 1

\* str(n) of an int n >= 0
RECURSIVE str(_)
str(n) == IF n < 10 THEN <<Digit[n + 1]>> ELSE str(n \div 10) \o <<Digit[(n % 10) + 1]>>

\* str.zfill(width) of a string without a sign
RECURSIVE zfill(_, _)
zfill(s, width) == IF Len(s) >= width THEN s ELSE zfill(<<"0">> \o s, width)

\* int(s) of a string of decimal digits; it raises ValueError for the others here
int_raises(s) == s = <<>> \/ \E k \in DOMAIN s : ~IsDigit(s[k])
RECURSIVE int(_)
int(s) == IF Len(s) = 1 THEN DigitValue(s[1])
          ELSE 10 * int(SubSeq(s, 1, Len(s) - 1)) + DigitValue(s[Len(s)])

STORE == <<"s", "t", "o", "r", "e">>
HTML == <<".", "h", "t", "m", "l">>

endswith(s, suffix) ==
    Len(s) >= Len(suffix) /\ SubSeq(s, Len(s) - Len(suffix) + 1, Len(s)) = suffix
removesuffix(s, suffix) ==
    IF endswith(s, suffix) THEN SubSeq(s, 1, Len(s) - Len(suffix)) ELSE s

\* mutant of journal_html_filename: the second shard is id // 1_000
journal_html_filename_flat(id) ==
    LET millions == id \div 1000000
        thousands == id \div 1000
    IN <<STORE, zfill(str(millions), 2), zfill(str(thousands), 3), str(id) \o HTML>>

\* Journal.journal_html_filename
journal_html_filename(id) ==
    LET millions == id \div 1000000
        thousands == (id - 1000000 * millions) \div 1000
    IN <<STORE, zfill(str(millions), 2), zfill(str(thousands), 3), str(id) \o HTML>>

\* Journal.from_file_path raises ValueError: no .html suffix, or int() refuses the rest
from_file_path_raises(path) ==
    LET file_name == path[Len(path)]
    IN ~endswith(file_name, HTML) \/ int_raises(removesuffix(file_name, HTML))

\* Journal.from_file_path: the journal_id of the Journal it returns
from_file_path(path) == int(removesuffix(path[Len(path)], HTML))

NoJournal == [raised |-> FALSE, journal_id |-> NONE]

\* the journal_html_filename property of the journal is read
journal_html_filename_get ==
    /\ self_journal_id # NONE
    /\ file_path = <<>>
    /\ file_path' = journal_html_filename(self_journal_id)
    /\ UNCHANGED <<store, db, now, upserts, pc, dvars, fvars, bvars, gvars, ivars, self_journal_id,
                   file_journal, avars, kvars>>

\* utils.list_downloaded_journals: Journal.from_file_path of a file of the archive
from_file_path_call ==
    /\ file_path # <<>>
    /\ file_journal = NoJournal
    /\ file_journal' = IF from_file_path_raises(file_path)
                       THEN [raised |-> TRUE, journal_id |-> NONE]
                       ELSE [raised |-> FALSE, journal_id |-> from_file_path(file_path)]
    /\ UNCHANGED <<store, db, now, upserts, pc, dvars, fvars, bvars, gvars, ivars, self_journal_id,
                   file_path, avars, kvars>>

----------------------------------------------------------------------------
(* JournalInfo.author_status_prefix on a page without the prefix markup *)

\* the character U+221E
INFINITY == "infinity"

\* str.lower, for the characters of the model
lower(c) == IF c = "A" THEN "a" ELSE IF c = "B" THEN "b" ELSE c

\* display_name_to_username: name.lower().replace("_", "")
RECURSIVE display_name_to_username(_)
display_name_to_username(name) ==
    IF name = <<>> THEN <<>>
    ELSE (IF Head(name) = "_" THEN <<>> ELSE <<lower(Head(name))>>)
         \o display_name_to_username(Tail(name))

startswith(s, prefix) == Len(s) >= Len(prefix) /\ SubSeq(s, 1, Len(prefix)) = prefix

\* prefix_to_meaning: the dict it looks the prefix up in (the key None left out)
prefix_to_meaning ==
    (<<>> :> "") @@ (<<INFINITY>> :> "Deceased") @@ (<<"!">> :> "Suspended")
    @@ (<<"~">> :> "Member") @@ (<<"-">> :> "Banned") @@ (<<"@">> :> "Staff")

Returned(prefix) == [raised |-> FALSE, prefix |-> prefix]
Raised == [raised |-> TRUE, prefix |-> <<>>]

\* mutant of author_status_prefix: the rest of the name must be the whole username
author_status_prefix_exact(name, username) ==
    IF name = <<>> THEN Raised
    ELSE LET potential_prefix == name[1]
             potential_username == display_name_to_username(name)
         IN IF potential_prefix \in {INFINITY, "!"} THEN Returned(<<potential_prefix>>)
            ELSE IF username = potential_username THEN Returned(<<>>)
            ELSE IF potential_prefix \in {"~", "-"} /\ username = Tail(potential_username)
                 THEN Returned(<<potential_prefix>>)
            ELSE Raised

\* JournalInfo.author_status_prefix, lines 552-568: display_name[0] raises
\* IndexError for an empty name, the last branch ValueError
author_status_prefix(name, username) ==
    IF name = <<>> THEN Raised
    ELSE LET potential_prefix == name[1]
             potential_username == display_name_to_username(name)
         IN IF potential_prefix \in {INFINITY, "!"} THEN Returned(<<potential_prefix>>)
            ELSE IF username = potential_username THEN Returned(<<>>)
            ELSE IF potential_prefix \in {"~", "-"}
                    /\ startswith(username, Tail(potential_username))
                 THEN Returned(<<potential_prefix>>)
            ELSE Raised

NotRead == [raised |-> FALSE, prefix |-> <<"?">>]

\* the author_status_prefix property of the page is read
author_status_prefix_get ==
    /\ author_username # <<>>
    /\ status_prefix = NotRead
    /\ status_prefix' = author_status_prefix(display_name, author_username)
    /\ UNCHANGED <<store, db, now, upserts, pc, dvars, fvars, bvars, gvars, ivars, pvars,
                   display_name, author_username, kvars>>

----------------------------------------------------------------------------
(* Journal.save and the journals table *)

BROKEN_JOURNALS == {3}
BROKEN_JOURNAL_ERR == "System error: Internal server error."

\* BROKEN_JOURNAL_ERR in str(e), for e = FASystemError("System error: " + error_message)
broken_err_in(p) == ISE \in p.msg

Row(is_deleted, archive_date, error, login_used, json_data) ==
    [is_deleted |-> is_deleted, archive_datetime |-> archive_date, error |-> error,
     login_used |-> login_used, json |-> json_data]

NULL == "NULL"

\* mutants of add_entry: the conflict clause leaves the error column alone; the
\* conflict clause stamps the row with the time of the write
add_entry_keeps_error(d, journal_id, is_deleted, archive_date, error, login_used, json_data) ==
    IF journal_id \in DOMAIN d
    THEN [d EXCEPT ![journal_id] = [@ EXCEPT !.is_deleted = is_deleted,
                                              !.login_used = login_used, !.json = json_data]]
    ELSE (journal_id :> Row(is_deleted, archive_date, error, login_used, json_data)) @@ d
add_entry_touches(d, journal_id, is_deleted, archive_date, error, login_used, json_data) ==
    IF journal_id \in DOMAIN d
    THEN [d EXCEPT ![journal_id] = Row(is_deleted, now, error, login_used, json_data)]
    ELSE (journal_id :> Row(is_deleted, archive_date, error, login_used, json_data)) @@ d

\* Database.add_entry: INSERT ... ON CONFLICT(journal_id) DO UPDATE SET
\*   is_deleted, error, login_used, json  (archive_datetime is not in the SET list)
add_entry(d, journal_id, is_deleted, archive_date, error, login_used, json_data) ==
    IF journal_id \in DOMAIN d
    THEN [d EXCEPT ![journal_id] = [@ EXCEPT !.is_deleted = is_deleted, !.error = error,
                                              !.login_used = login_used, !.json = json_data]]
    ELSE (journal_id :> Row(is_deleted, archive_date, error, login_used, json_data)) @@ d

\* SQL's comparison and AND over values that may be NULL: "true", "false", "null"
sql_eq(a, b, null) == IF a = null \/ b = null THEN "null" ELSE IF a = b THEN "true" ELSE "false"
sql_and(S) == IF "false" \in S THEN "false" ELSE IF "null" \in S THEN "null" ELSE "true"

\* Database.update_entry: the one expression of its SET clause,
\*   is_deleted = (? AND archive_datetime = ? AND error = ? AND login_used = ? AND json = ?)
update_expr(r, is_deleted, archive_date, error, login_used, json_data) ==
    sql_and({IF is_deleted THEN "true" ELSE "false",
             sql_eq(r.archive_datetime, archive_date, NONE),
             sql_eq(r.error, error, NULL),
             sql_eq(r.login_used, login_used, ""),
             sql_eq(r.json, json_data, <<>>)})

\* Database.update_entry raises: only when a row matches and the expression is
\* NULL, which the NOT NULL column refuses; with no row of that ID the UPDATE
\* changes nothing and returns
update_entry_raises(d, journal_id, is_deleted, archive_date, error, login_used, json_data) ==
    /\ journal_id \in DOMAIN d
    /\ update_expr(d[journal_id], is_deleted, archive_date, error, login_used, json_data) = "null"

\* Database.update_entry: UPDATE journals SET ... WHERE journal_id = ?
update_entry(d, journal_id, is_deleted, archive_date, error, login_used, json_data) ==
    IF journal_id \in DOMAIN d
       /\ ~update_entry_raises(d, journal_id, is_deleted, archive_date, error, login_used, json_data)
    THEN [d EXCEPT ![journal_id].is_deleted =
            update_expr(d[journal_id], is_deleted, archive_date, error, login_used, json_data) = "true"]
    ELSE d

\* mutant of save_raises: no allow-list, every FASystemError is raised again
save_raises_no_allow_list(id, p) ==
    LET e == check_errors(p) IN
    CASE e = "DataIncomplete" -> TRUE
      [] e = "RegisteredUsersOnly" -> TRUE
      [] e = "FASystemError" -> TRUE
      [] e = "None" -> to_json_raises(p)
      [] OTHER -> FALSE

\* mutant of save_raises: a FASystemError is never raised again
save_raises_swallows(id, p) ==
    LET e == check_errors(p) IN
    CASE e = "DataIncomplete" -> TRUE
      [] e = "RegisteredUsersOnly" -> TRUE
      [] e = "None" -> to_json_raises(p)
      [] OTHER -> FALSE

\* Journal.save: does it raise for this journal?
save_raises(id, p) ==
    LET e == check_errors(p) IN
    CASE e = "DataIncomplete" -> TRUE
      [] e = "RegisteredUsersOnly" -> TRUE
      [] e = "FASystemError" -> ~(id \in BROKEN_JOURNALS /\ broken_err_in(p))
      [] e = "None" -> to_json_raises(p)
      [] OTHER -> FALSE

\* Journal.save: the arguments it hands to add_entry when it does not raise
save_row(id, p, archive_date) ==
    LET e == check_errors(p) IN
    CASE e = "JournalNotFound" -> Row(TRUE, archive_date, "Journal not found", p.login, <<>>)
      [] e = "AccountDisabled" ->
           Row(TRUE, archive_date, "Account disabled: " \o account_disabled_username(p), p.login, <<>>)
      [] e = "PendingDeletion" ->
           Row(TRUE, archive_date, "Pending deletion from " \o pending_deletion_by(p), p.login, <<>>)
      [] e = "FASystemError" -> Row(TRUE, archive_date, BROKEN_JOURNAL_ERR, p.login, <<>>)
      [] OTHER -> Row(FALSE, archive_date, NULL, p.login, <<to_json(id, p)>>)

\* Journal.save(db) of a journal that does not raise
save(d, id, p, archive_date) ==
    LET r == save_row(id, p, archive_date) IN
    add_entry(d, id, r.is_deleted, r.archive_datetime, r.error, r.login_used, r.json)

\* history of a Journal.save that reached add_entry: the journal, the page it was
\* classified from, the row handed to add_entry, and whether the save before it
\* was of the same page for the same journal
Upsert(id, p, archive_date) ==
    LET r == save_row(id, p, archive_date)
    IN [id |-> id, page |-> p, row |-> r,
        again |-> \E u \in upserts : u.id = id /\ u.page = p /\ u.row = r]

----------------------------------------------------------------------------
(* Helpers *)

Max(S) == CHOOSE x \in S : \A y \in S : y <= x
Min(S) == CHOOSE x \in S : \A y \in S : x <= y
Range(s) == {s[k] : k \in DOMAIN s}
\* list(range(a, b))
range(a, b) == [k \in 1..(IF b > a THEN b - a ELSE 0) |-> a + k - 1]
\* delete_many: the files of the journals S are removed
delete_many(st, S) == [j \in DOMAIN st \ S |-> st[j]]

\* save_many over a set of downloaded journals (none of which raises)
RECURSIVE save_set(_, _, _)
save_set(d, js, S) ==
    IF S = {} THEN d
    ELSE LET i == Min(S) IN save_set(save(d, i, js[i].page, js[i].date), js, S \ {i})

Artifact(p, t) == [page |-> p, mtime |-> t]
Journal(p, t, stage) == [page |-> p, date |-> t, stage |-> stage]


----------------------------------------------------------------------------
(* The clock *)

Tick ==
    /\ now < MaxClock
    /\ now' = now + 1
    /\ UNCHANGED <<store, db, upserts, pc, dvars, fvars, bvars, gvars, ivars, uvars>>

----------------------------------------------------------------------------
(* download_many / download_journal_with_backup_cookies / download_journal,     *)
(* for the batch next_batch[t] of task t: one coroutine per ID of the batch     *)

\* mutant of download_journal_retry: the ClientError is not caught, the task ends
download_journal_raises(t, i) ==
    /\ pc[t] = "download"
    /\ i \in Range(next_batch[t])
    /\ (i \in DOMAIN next_journals[t] => next_journals[t][i].stage = "private")
    /\ pc' = [pc EXCEPT ![t] = "halted"]
    /\ UNCHANGED <<store, db, now, upserts, dvars, fvars, bvars, gvars, ivars, uvars>>

\* download_journal: the request fails in transport (aiohttp.ClientError) before
\* or while the body is written to the file; sleep 5 and try again
download_journal_retry(t, i) ==
    /\ pc[t] = "download"
    /\ i \in Range(next_batch[t])
    /\ (i \in DOMAIN next_journals[t] => next_journals[t][i].stage = "private")
    /\ \/ store' = store
       \/ store' = (i :> Artifact(Truncated, now)) @@ store
    /\ UNCHANGED <<db, now, upserts, pc, dvars, fvars, bvars, gvars, ivars, uvars>>

\* the pages the site answers in the runs of run-download, where two workers
\* download at once: a good page, a missing journal, a private one, a cut body
RunPages == {OkPage, NotFoundPage, Truncated, PrivatePage, LoggedIn(OkPage), LoggedIn(PrivatePage)}
\* a body cut short after the "registered users only" notice: no </html>
TruncatedPrivate == Page(FALSE, FALSE, {}, TRUE, "", "", FALSE, "")
\* the pages the site answers when download_many is looked at on its own
BatchPages == {OkPage, NotFoundPage, PrivatePage, TruncatedPrivate}
\* the pages the site answers while fill-gaps runs beside a forward worker, and
\* in the runs where the site status of the pages is looked at
LivePages == {OkPage, NotFoundPage, PrivatePage, LoggedIn(OkPage)}
AnonAnswers ==
    IF pc["batch"] # "off" THEN BatchPages
    ELSE IF pc["fwd"] # "off" /\ pc["gaps"] # "off" THEN AnonPages \cap LivePages
    ELSE IF pc["peak"] # "off" THEN AnonPages \cap LivePages
    ELSE IF pc["run"] = "off" THEN AnonPages ELSE AnonPages \cap RunPages
AuthAnswers ==
    IF pc["fwd"] # "off" /\ pc["gaps"] # "off" THEN AuthPages \cap LivePages
    ELSE IF pc["peak"] # "off" THEN AuthPages \cap LivePages
    ELSE IF pc["run"] = "off" THEN AuthPages ELSE AuthPages \cap RunPages

\* mutant of download_journal: the cookies are tried when check_errors would
\* raise RegisteredUsersOnly
download_journal_by_class(t, i) ==
    /\ pc[t] = "download"
    /\ i \in Range(next_batch[t])
    /\ i \notin DOMAIN next_journals[t]
    /\ \E p \in AnonAnswers :
          /\ store' = (i :> Artifact(p, now)) @@ store
          /\ next_journals' = [next_journals EXCEPT ![t] =
                (i :> Journal(p, now, IF check_errors(p) = "RegisteredUsersOnly"
                                      THEN "private" ELSE "done")) @@ @]
    /\ UNCHANGED <<db, now, upserts, pc, next_batch, fvars, bvars, gvars, ivars, uvars>>

\* download_journal_with_backup_cookies: the anonymous download_journal returns
download_journal(t, i) ==
    /\ pc[t] = "download"
    /\ i \in Range(next_batch[t])
    /\ i \notin DOMAIN next_journals[t]
    /\ \E p \in AnonAnswers :
          /\ store' = (i :> Artifact(p, now)) @@ store
          /\ next_journals' = [next_journals EXCEPT ![t] =
                (i :> Journal(p, now, IF account_private(p) THEN "private" ELSE "done")) @@ @]
    /\ UNCHANGED <<db, now, upserts, pc, next_batch, fvars, bvars, gvars, ivars, uvars>>

\* download_journal_with_backup_cookies: info.account_private, so download_journal(id, cookies)
download_journal_cookies(t, i) ==
    /\ pc[t] = "download"
    /\ i \in DOMAIN next_journals[t]
    /\ next_journals[t][i].stage = "private"
    /\ \E p \in AuthAnswers :
          /\ store' = (i :> Artifact(p, now)) @@ store
          /\ next_journals' = [next_journals EXCEPT ![t][i] = Journal(p, now, "done")]
    /\ UNCHANGED <<db, now, upserts, pc, next_batch, fvars, bvars, gvars, ivars, uvars>>

download_many(t) ==
    \/ \E i \in IDs : download_journal_retry(t, i)
    \/ \E i \in IDs : download_journal(t, i)
    \/ \E i \in IDs : download_journal_cookies(t, i)

\* mutant of Downloaded: the requests with cookies are not awaited
Downloaded_anonymous(t) ==
    \A i \in Range(next_batch[t]) : i \in DOMAIN next_journals[t]

\* the gather of download_many has returned: every journal of the batch is downloaded
Downloaded(t) ==
    \A i \in Range(next_batch[t]) :
        i \in DOMAIN next_journals[t] /\ next_journals[t][i].stage = "done"

\* download_many called on its own: its gather returns the list of journals
download_many_return ==
    /\ pc["batch"] = "download"
    /\ Downloaded("batch")
    /\ pc' = [pc EXCEPT !["batch"] = "returned"]
    /\ UNCHANGED <<store, db, now, upserts, dvars, fvars, bvars, gvars, ivars, uvars>>

\* asyncio.gather(save_many(to_save), delete_many(to_delete)) of task t, which then
\* goes to `after`; when a save raises the task ends ("halted") with any of the
\* other saves and deletes done
save_and_delete(t, to_save, to_delete, after) ==
    LET js == next_journals[t]
        raising == {i \in to_save : save_raises(i, js[i].page)}
    IN IF raising = {}
       THEN /\ db' = save_set(db, js, to_save)
            /\ upserts' = {Upsert(i, js[i].page, js[i].date) : i \in to_save}
            /\ store' = delete_many(store, to_delete)
            /\ pc' = [pc EXCEPT ![t] = after]
       ELSE \E S \in SUBSET (to_save \ raising), D \in SUBSET to_delete :
            /\ db' = save_set(db, js, S)
            /\ upserts' = {Upsert(i, js[i].page, js[i].date) : i \in S}
            /\ store' = delete_many(store, D)
            /\ pc' = [pc EXCEPT ![t] = "halted"]

----------------------------------------------------------------------------
(* work_forwards *)

\* download.py line 23
PEAK_REGISTERED_CUTOFF == 10000

\* the registered-users counts the site status of a page may show; NONE for a
\* page without the site status.  Only the runs that look at the peak-time sleep
\* have pages with a site status.
RegisteredOnline ==
    IF pc["peak"] = "off" THEN {NONE}
    ELSE {NONE, PEAK_REGISTERED_CUTOFF, PEAK_REGISTERED_CUTOFF + 1}

\* utils._peak_time_active(current, next_infos, peak_users_cutoff): peak time is
\* active when a site status of the batch shows more registered users online
\* than the cutoff
_peak_time_active(current, infos, peak_users_cutoff) ==
    \E i \in DOMAIN infos : infos[i] # NONE /\ infos[i] > peak_users_cutoff

\* work_forwards line 201: set once, never assigned again
peak_hours_active == TRUE

min(a, b) == IF a < b THEN a ELSE b
max(a, b) == IF a > b THEN a ELSE b

\* mutant of forward_batch: the batch ends one ID later
forward_batch_one_more(last, max_id, batch_size) ==
    LET batch_start == last + 1
        batch_end == IF max_id # NONE THEN min(last + batch_size + 2, max_id)
                     ELSE last + batch_size + 2
    IN range(batch_start, batch_end)

\* mutant of forward_batch: the batch starts one ID after last_good_id + 1
forward_batch_skips(last, max_id, batch_size) ==
    LET batch_start == last + 2
        batch_end == IF max_id # NONE THEN min(last + batch_size + 2, max_id)
                     ELSE last + batch_size + 2
    IN range(batch_start, batch_end)

\* lines 205-209
forward_batch(last, max_id, batch_size) ==
    LET batch_start == last + 1
        batch_end == IF max_id # NONE THEN min(last + batch_size + 1, max_id)
                     ELSE last + batch_size + 1
    IN range(batch_start, batch_end)

\* lines 203-216: sleep, then the next batch of IDs; done when it is empty
work_forwards_next_batch ==
    /\ pc["fwd"] = "sleep"
    /\ LET batch == forward_batch(last_good_id, f_max_id, BatchSize)
       IN /\ \A i \in Range(batch) : i <= MaxId
          /\ next_batch' = [next_batch EXCEPT !["fwd"] = batch]
          /\ next_journals' = [next_journals EXCEPT !["fwd"] = <<>>]
          /\ pc' = [pc EXCEPT !["fwd"] = IF batch = <<>> THEN "done" ELSE "download"]
    /\ UNCHANGED <<store, db, now, upserts, fvars, bvars, gvars, ivars, uvars>>

\* mutant of split_on_last_good: every journal of the batch is saved
split_all_saved(batch, last) == batch

\* line 235: the journals of the batch that are saved; the others are deleted
split_on_last_good(batch, last) == {i \in batch : i <= last}

\* mutant of good_ids: the test of line 219 inverted
good_ids_inverted(js) == {i \in DOMAIN js : journal_deleted(js[i].page)}

\* line 219
good_ids(js) == {i \in DOMAIN js : ~journal_deleted(js[i].page)}

\* lines 218-229: no journal of the batch exists: delete them all, sleep, try again
work_forwards_empty_batch ==
    /\ pc["fwd"] = "download"
    /\ Downloaded("fwd")
    /\ good_ids(next_journals["fwd"]) = {}
    /\ store' = delete_many(store, Range(next_batch["fwd"]))
    /\ pc' = [pc EXCEPT !["fwd"] = "empty_batch_sleep"]
    /\ UNCHANGED <<db, now, upserts, dvars, fvars, bvars, gvars, ivars, uvars>>

\* lines 228-229: the empty-batch sleep is over; continue
work_forwards_retry ==
    /\ pc["fwd"] = "empty_batch_sleep"
    /\ pc' = [pc EXCEPT !["fwd"] = "sleep"]
    /\ UNCHANGED <<store, db, now, upserts, dvars, fvars, bvars, gvars, ivars, uvars>>

\* lines 230-239: the newest journal that exists is the new last_good_id; save the
\* journals up to it, delete the ones after it
work_forwards_save ==
    /\ pc["fwd"] = "download"
    /\ Downloaded("fwd")
    /\ good_ids(next_journals["fwd"]) # {}
    /\ LET new_last == Max(good_ids(next_journals["fwd"]))
           to_save == split_on_last_good(Range(next_batch["fwd"]), new_last)
       IN /\ last_good_id' = new_last
          /\ save_and_delete("fwd", to_save, Range(next_batch["fwd"]) \ to_save, "saved")
    /\ UNCHANGED <<now, dvars, f_max_id, bvars, gvars, ivars, uvars>>

\* mutant of work_forwards_peak: the sleep is decided on peak_hours_active
work_forwards_peak_hours ==
    /\ pc["fwd"] \in {"saved", "peak_sleep"}
    /\ IF pc["fwd"] = "saved"
       THEN \E infos \in [Range(next_batch["fwd"]) -> RegisteredOnline] :
               /\ next_infos' = [next_infos EXCEPT !["fwd"] = infos]
               /\ pc' = [pc EXCEPT !["fwd"] = IF peak_hours_active THEN "peak_sleep" ELSE "sleep"]
       ELSE /\ pc' = [pc EXCEPT !["fwd"] = "sleep"]
            /\ UNCHANGED next_infos
    /\ UNCHANGED <<store, db, now, upserts, dvars, fvars, bvars, gvars, ivars, pvars, avars,
                   peak_time_active>>

\* lines 245-250: the site status of the journals of the batch is read; when
\* peak time is active the worker sleeps peak_sleep ("peak_sleep"), and that
\* sleep over or not taken it goes round the loop
work_forwards_peak ==
    /\ pc["fwd"] \in {"saved", "peak_sleep"}
    /\ IF pc["fwd"] = "saved"
       THEN \E infos \in [Range(next_batch["fwd"]) -> RegisteredOnline] :
               LET active == _peak_time_active(peak_hours_active, infos, PEAK_REGISTERED_CUTOFF)
               IN /\ next_infos' = [next_infos EXCEPT !["fwd"] = infos]
                  /\ pc' = [pc EXCEPT !["fwd"] = IF active THEN "peak_sleep" ELSE "sleep"]
       ELSE /\ pc' = [pc EXCEPT !["fwd"] = "sleep"]
            /\ UNCHANGED next_infos
    /\ UNCHANGED <<store, db, now, upserts, dvars, fvars, bvars, gvars, ivars, pvars, avars,
                   peak_time_active>>

work_forwards ==
    \/ work_forwards_next_batch
    \/ download_many("fwd")
    \/ work_forwards_empty_batch
    \/ work_forwards_retry
    \/ work_forwards_save
    \/ work_forwards_peak

----------------------------------------------------------------------------
(* work_backwards *)

\* mutant of backward_batch: the batch is taken above the current journal
backward_batch_upwards(current, min_id, batch_size) ==
    range(current + 1, current + batch_size + 1)

\* lines 269-271
backward_batch(current, min_id, batch_size) ==
    range(max(min_id, current - batch_size), current)

\* lines 268-278: the next batch of IDs; done when it is empty
work_backwards_next_batch ==
    /\ pc["bwd"] = "loop"
    /\ LET batch == backward_batch(current_journal, b_min_id, BatchSize)
       IN /\ next_batch' = [next_batch EXCEPT !["bwd"] = batch]
          /\ next_journals' = [next_journals EXCEPT !["bwd"] = <<>>]
          /\ pc' = [pc EXCEPT !["bwd"] = IF batch = <<>> THEN "done" ELSE "download"]
    /\ UNCHANGED <<store, db, now, upserts, fvars, bvars, gvars, ivars, uvars>>

\* mutant of work_backwards_save: current_journal is left where it was
work_backwards_save_stays ==
    /\ pc["bwd"] = "download"
    /\ Downloaded("bwd")
    /\ save_and_delete("bwd", Range(next_batch["bwd"]), {}, "saved")
    /\ UNCHANGED <<now, dvars, fvars, bvars, gvars, ivars, uvars>>

\* lines 279-283: save every journal of the batch; the oldest is the new current_journal
work_backwards_save ==
    /\ pc["bwd"] = "download"
    /\ Downloaded("bwd")
    /\ save_and_delete("bwd", Range(next_batch["bwd"]), {}, "saved")
    /\ current_journal' = IF pc'["bwd"] = "saved" THEN Min(Range(next_batch["bwd"]))
                          ELSE current_journal
    /\ UNCHANGED <<now, dvars, fvars, b_min_id, gvars, ivars, uvars>>

\* lines 284-293: the site status of the journals of the batch is read and
\* peak_time_active assigned; when it is true the worker sleeps peak_sleep
\* ("peak_sleep"), and that sleep over or not taken it goes round the loop
work_backwards_peak ==
    /\ pc["bwd"] \in {"saved", "peak_sleep"}
    /\ IF pc["bwd"] = "saved"
       THEN \E infos \in [Range(next_batch["bwd"]) -> RegisteredOnline] :
               LET active == _peak_time_active(peak_time_active, infos, PEAK_REGISTERED_CUTOFF)
               IN /\ next_infos' = [next_infos EXCEPT !["bwd"] = infos]
                  /\ peak_time_active' = active
                  /\ pc' = [pc EXCEPT !["bwd"] = IF active THEN "peak_sleep" ELSE "loop"]
       ELSE /\ pc' = [pc EXCEPT !["bwd"] = "loop"]
            /\ UNCHANGED kvars
    /\ UNCHANGED <<store, db, now, upserts, dvars, fvars, bvars, gvars, ivars, pvars, avars>>

work_backwards ==
    \/ work_backwards_next_batch
    \/ download_many("bwd")
    \/ work_backwards_save
    \/ work_backwards_peak

----------------------------------------------------------------------------
(* fill_gaps *)

RECURSIVE sorted(_)
sorted(S) == IF S = {} THEN <<>> ELSE <<Min(S)>> \o sorted(S \ {Min(S)})

InBounds(i, min_id, max_id) == i >= min_id /\ (max_id = NONE \/ i <= max_id)

\* utils.list_journals_truncated: the IDs of the archived files in the bounds, sorted
list_journals_truncated(st, min_id, max_id) ==
    sorted({i \in DOMAIN st : InBounds(i, min_id, max_id)})

\* Database.list_journal_ids_truncated: a SELECT without ORDER BY; the rows in the
\* bounds, in any order the database may return them
list_journal_ids_truncated(d, min_id, max_id) ==
    LET S == {i \in DOMAIN d : InBounds(i, min_id, max_id)}
    IN {l \in [1..Cardinality(S) -> S] : \A j, k \in DOMAIN l : j # k => l[j] # l[k]}

\* the IDs the loops at lines 378-388 and 398-418 visit: those strictly between
\* each element of the list and the next
RECURSIVE missing_between(_)
missing_between(l) ==
    IF Len(l) < 2 THEN <<>> ELSE range(l[1] + 1, l[2]) \o missing_between(Tail(l))

\* lines 367-375: list the archived files; max() of an empty list raises ValueError
fill_gaps_list_files ==
    /\ pc["gaps"] = "start"
    /\ LET all_journals == list_journals_truncated(store, g_min_id, g_max_id)
       IN IF all_journals = <<>>
          THEN /\ pc' = [pc EXCEPT !["gaps"] = "halted"]
               /\ UNCHANGED <<total_expected, g_todo, g_phase>>
          ELSE LET highest_id == Max(Range(all_journals))
                   lowest_id == Min(Range(all_journals))
                   expected == highest_id - lowest_id + 1
                   num_missing_files == expected - Len(all_journals)
               IN /\ total_expected' = expected
                  /\ g_todo' = IF num_missing_files > 0 THEN missing_between(all_journals) ELSE <<>>
                  /\ g_phase' = "files"
                  /\ pc' = [pc EXCEPT !["gaps"] = "files"]
    /\ UNCHANGED <<store, db, now, upserts, dvars, fvars, bvars, g_min_id, g_max_id, ivars, uvars>>

\* lines 385-387: the next missing file: download_and_save(db, missing_id, backup_cookies)
fill_gaps_missing_file ==
    /\ pc["gaps"] = "files"
    /\ g_todo # <<>>
    /\ next_batch' = [next_batch EXCEPT !["gaps"] = <<Head(g_todo)>>]
    /\ next_journals' = [next_journals EXCEPT !["gaps"] = <<>>]
    /\ g_todo' = Tail(g_todo)
    /\ pc' = [pc EXCEPT !["gaps"] = "download"]
    /\ UNCHANGED <<store, db, now, upserts, fvars, bvars, g_min_id, g_max_id, total_expected,
                   g_phase, ivars, uvars>>

\* download_and_save, line 160: journal.save(db) of the journal just downloaded
fill_gaps_save ==
    /\ pc["gaps"] = "download"
    /\ Downloaded("gaps")
    /\ save_and_delete("gaps", Range(next_batch["gaps"]), {}, g_phase)
    /\ UNCHANGED <<now, dvars, fvars, bvars, gvars, ivars, uvars>>

\* lines 389-395: the files are done; list the database entries in the bounds
fill_gaps_list_entries ==
    /\ pc["gaps"] = "files"
    /\ g_todo = <<>>
    /\ \E all_db_journals \in list_journal_ids_truncated(db, g_min_id, g_max_id) :
          LET num_missing_entries == total_expected - Len(all_db_journals)
          IN g_todo' = IF num_missing_entries > 0 THEN missing_between(all_db_journals) ELSE <<>>
    /\ g_phase' = "entries"
    /\ pc' = [pc EXCEPT !["gaps"] = "entries"]
    /\ UNCHANGED <<store, db, now, upserts, dvars, fvars, bvars, g_min_id, g_max_id,
                   total_expected, ivars, uvars>>

\* line 410
needs_redownload(p) == is_data_incomplete(p) \/ journal_deleted(p) \/ account_private(p)

\* lines 405-416: the next missing entry: read the archived file (FileNotFoundError
\* when there is none); download it again, or save the entry from the file
fill_gaps_missing_entry ==
    /\ pc["gaps"] = "entries"
    /\ g_todo # <<>>
    /\ LET missing_id == Head(g_todo)
       IN /\ g_todo' = Tail(g_todo)
          /\ IF missing_id \notin DOMAIN store
             THEN /\ pc' = [pc EXCEPT !["gaps"] = "halted"]
                  /\ UNCHANGED <<store, db, upserts, dvars>>
             ELSE LET p == store[missing_id].page IN
                  IF needs_redownload(p)
                  THEN /\ store' = delete_many(store, {missing_id})
                       /\ next_batch' = [next_batch EXCEPT !["gaps"] = <<missing_id>>]
                       /\ next_journals' = [next_journals EXCEPT !["gaps"] = <<>>]
                       /\ pc' = [pc EXCEPT !["gaps"] = "download"]
                       /\ UNCHANGED <<db, upserts>>
                  ELSE IF save_raises(missing_id, p)
                  THEN /\ pc' = [pc EXCEPT !["gaps"] = "halted"]
                       /\ UNCHANGED <<store, db, upserts, dvars>>
                  ELSE /\ db' = save(db, missing_id, p, store[missing_id].mtime)
                       /\ upserts' = {Upsert(missing_id, p, store[missing_id].mtime)}
                       /\ UNCHANGED <<store, pc, dvars>>
    /\ UNCHANGED <<now, fvars, bvars, g_min_id, g_max_id, total_expected, g_phase, ivars, uvars>>

\* line 419
fill_gaps_done ==
    /\ pc["gaps"] = "entries"
    /\ g_todo = <<>>
    /\ pc' = [pc EXCEPT !["gaps"] = "done"]
    /\ UNCHANGED <<store, db, now, upserts, dvars, fvars, bvars, gvars, ivars, uvars>>

fill_gaps ==
    \/ fill_gaps_list_files
    \/ fill_gaps_missing_file
    \/ download_many("gaps")
    \/ fill_gaps_save
    \/ fill_gaps_list_entries
    \/ fill_gaps_missing_entry
    \/ fill_gaps_done

----------------------------------------------------------------------------
(* test_download (the test-download command, run any number of times) *)

ConcurrentTasks == 2
TestIds == {3}
\* mutant of Workers: one run_worker task more than concurrent_tasks
Workers_one_more == 1..(ConcurrentTasks + 1)

\* TaskWorker.run: one run_worker task per unit of concurrent_tasks
Workers == 1..ConcurrentTasks

ImportIdle == \A w \in Workers : w_pc[w] \in {"off", "returned", "failed"}

\* line 351: download_journal_with_backup_cookies(journal_id, cookies)
test_download_start ==
    /\ pc["test"] = "idle"
    /\ ImportIdle
    /\ \E journal_id \in TestIds :
          next_batch' = [next_batch EXCEPT !["test"] = <<journal_id>>]
    /\ next_journals' = [next_journals EXCEPT !["test"] = <<>>]
    /\ pc' = [pc EXCEPT !["test"] = "download"]
    /\ UNCHANGED <<store, db, now, upserts, fvars, bvars, gvars, ivars, uvars>>

\* lines 352-362: check_errors() and to_json() raise for anything but a good page;
\* then journal.save(db)
test_download_save ==
    /\ pc["test"] = "download"
    /\ Downloaded("test")
    /\ LET i == next_batch["test"][1]
           j == next_journals["test"][i]
       IN IF check_errors(j.page) # "None" \/ to_json_raises(j.page)
          THEN UNCHANGED <<db, upserts>>
          ELSE /\ db' = save(db, i, j.page, j.date)
               /\ upserts' = {Upsert(i, j.page, j.date)}
    /\ pc' = [pc EXCEPT !["test"] = "idle"]
    /\ UNCHANGED <<store, now, dvars, fvars, bvars, gvars, ivars, uvars>>

test_download ==
    \/ test_download_start
    \/ download_many("test")
    \/ test_download_save

----------------------------------------------------------------------------
(* import_downloads and its TaskWorker (the import-downloads command) *)

\* utils.py lines 95-104: queue one job per archived file of the bounds (no
\* --repopulate-path), start the run_worker tasks
import_downloads_start ==
    /\ ImportIdle
    /\ pc["test"] = "idle"
    /\ task_queue' = list_journals_truncated(store, i_min_id, i_max_id)
    /\ w_pc' = [w \in Workers |-> "get"]
    /\ UNCHANGED <<store, db, now, upserts, pc, dvars, fvars, bvars, gvars, w_job, i_min_id, i_max_id, uvars>>

\* mutant of run_worker_get: the job is read from the queue and left in it
run_worker_get_peeks(w) ==
    /\ w_pc[w] = "get"
    /\ IF task_queue = <<>>
       THEN /\ w_pc' = [w_pc EXCEPT ![w] = "returned"]
            /\ UNCHANGED <<task_queue, w_job>>
       ELSE /\ w_job' = [w_job EXCEPT ![w] = Head(task_queue)]
            /\ task_queue' = task_queue
            /\ w_pc' = [w_pc EXCEPT ![w] = "run"]
    /\ UNCHANGED <<store, db, now, upserts, pc, dvars, fvars, bvars, gvars, i_min_id, i_max_id, uvars>>

\* run_worker, lines 124-128: take the next job, or return when the queue is empty
run_worker_get(w) ==
    /\ w_pc[w] = "get"
    /\ IF task_queue = <<>>
       THEN /\ w_pc' = [w_pc EXCEPT ![w] = "returned"]
            /\ UNCHANGED <<task_queue, w_job>>
       ELSE /\ w_job' = [w_job EXCEPT ![w] = Head(task_queue)]
            /\ task_queue' = Tail(task_queue)
            /\ w_pc' = [w_pc EXCEPT ![w] = "run"]
    /\ UNCHANGED <<store, db, now, upserts, pc, dvars, fvars, bvars, gvars, i_min_id, i_max_id, uvars>>

\* mutant of import_downloaded_journal: the "registered users only" file is kept
import_downloaded_journal_keeps(w) ==
    /\ w_pc[w] = "run"
    /\ LET i == w_job[w]
       IN IF i \notin DOMAIN store
          THEN /\ w_pc' = [w_pc EXCEPT ![w] = "failed"]
               /\ UNCHANGED <<store, db, upserts>>
          ELSE LET p == store[i].page IN
               IF check_errors(p) = "RegisteredUsersOnly"
               THEN /\ w_pc' = [w_pc EXCEPT ![w] = "get"]
                    /\ UNCHANGED <<store, db, upserts>>
               ELSE IF save_raises(i, p)
               THEN /\ w_pc' = [w_pc EXCEPT ![w] = "failed"]
                    /\ UNCHANGED <<store, db, upserts>>
               ELSE /\ db' = save(db, i, p, store[i].mtime)
                    /\ upserts' = {Upsert(i, p, store[i].mtime)}
                    /\ w_pc' = [w_pc EXCEPT ![w] = "get"]
                    /\ UNCHANGED store
    /\ w_job' = [w_job EXCEPT ![w] = 0]
    /\ UNCHANGED <<now, pc, dvars, fvars, bvars, gvars, task_queue, i_min_id, i_max_id, uvars>>

\* _import_downloaded_journal: journal.save(db) from the archived file; a
\* "registered users only" page is deleted; any other exception ends the worker
import_downloaded_journal(w) ==
    /\ w_pc[w] = "run"
    /\ LET i == w_job[w]
       IN IF i \notin DOMAIN store
          THEN /\ w_pc' = [w_pc EXCEPT ![w] = "failed"]
               /\ UNCHANGED <<store, db, upserts>>
          ELSE LET p == store[i].page IN
               IF check_errors(p) = "RegisteredUsersOnly"
               THEN /\ store' = delete_many(store, {i})
                    /\ w_pc' = [w_pc EXCEPT ![w] = "get"]
                    /\ UNCHANGED <<db, upserts>>
               ELSE IF save_raises(i, p)
               THEN /\ w_pc' = [w_pc EXCEPT ![w] = "failed"]
                    /\ UNCHANGED <<store, db, upserts>>
               ELSE /\ db' = save(db, i, p, store[i].mtime)
                    /\ upserts' = {Upsert(i, p, store[i].mtime)}
                    /\ w_pc' = [w_pc EXCEPT ![w] = "get"]
                    /\ UNCHANGED store
    /\ w_job' = [w_job EXCEPT ![w] = 0]
    /\ UNCHANGED <<now, pc, dvars, fvars, bvars, gvars, task_queue, i_min_id, i_max_id, uvars>>

import_downloads ==
    \/ import_downloads_start
    \/ \E w \in Workers : run_worker_get(w)
    \/ \E w \in Workers : import_downloaded_journal(w)

----------------------------------------------------------------------------
(* Journal.save(db, just_update=True) of an archived journal *)

\* journal.py lines 83-128: classify the file, then db.update_entry
save_just_update ==
    /\ pc["update"] \in {"idle", "returned", "raised"}
    /\ \E i \in DOMAIN store :
          LET p == store[i].page
              r == save_row(i, p, store[i].mtime)
          IN /\ next_batch' = [next_batch EXCEPT !["update"] = <<i>>]
             /\ IF save_raises(i, p)
                   \/ update_entry_raises(db, i, r.is_deleted, r.archive_datetime, r.error,
                                          r.login_used, r.json)
                THEN /\ pc' = [pc EXCEPT !["update"] = "raised"]
                     /\ db' = db
                ELSE /\ pc' = [pc EXCEPT !["update"] = "returned"]
                     /\ db' = update_entry(db, i, r.is_deleted, r.archive_datetime, r.error,
                                           r.login_used, r.json)
    /\ UNCHANGED <<store, now, upserts, next_journals, fvars, bvars, gvars, ivars, uvars>>

----------------------------------------------------------------------------
(* run_download (the run-download command): both workers at once *)

RunStartIds == {NONE, 3}

\* lines 309-326: list the archived files in the bounds; with none, the start
\* journal is downloaded first (ValueError when --start-journal is given); else
\* the workers start from the newest and the oldest file
run_download_list ==
    /\ pc["run"] = "start"
    /\ LET all_journals == list_journals_truncated(store, b_min_id, f_max_id)
       IN IF all_journals = <<>>
          THEN /\ \E start_id \in RunStartIds :
                     IF start_id # NONE
                     THEN /\ pc' = [pc EXCEPT !["run"] = "raised"]
                          /\ UNCHANGED dvars
                     ELSE LET start == IF f_max_id = NONE THEN b_min_id
                                       ELSE (b_min_id + f_max_id) \div 2
                          IN /\ next_batch' = [next_batch EXCEPT !["run"] = <<start>>]
                             /\ next_journals' = [next_journals EXCEPT !["run"] = <<>>]
                             /\ pc' = [pc EXCEPT !["run"] = "download"]
               /\ UNCHANGED <<last_good_id, current_journal>>
          ELSE /\ last_good_id' = all_journals[Len(all_journals)]
               /\ current_journal' = all_journals[1]
               /\ pc' = [pc EXCEPT !["run"] = "gather", !["fwd"] = "sleep", !["bwd"] = "loop"]
               /\ UNCHANGED dvars
    /\ UNCHANGED <<store, db, now, upserts, f_max_id, b_min_id, gvars, ivars, uvars>>

\* lines 321-326: download_and_save of the start journal has downloaded it and
\* saves it; then both workers start from it
run_download_start ==
    /\ pc["run"] = "download"
    /\ Downloaded("run")
    /\ LET i == next_batch["run"][1]
           j == next_journals["run"][i]
       IN IF save_raises(i, j.page)
          THEN /\ pc' = [pc EXCEPT !["run"] = "raised"]
               /\ UNCHANGED <<db, upserts, last_good_id, current_journal>>
          ELSE /\ db' = save(db, i, j.page, j.date)
               /\ upserts' = {Upsert(i, j.page, j.date)}
               /\ last_good_id' = i
               /\ current_journal' = i
               /\ pc' = [pc EXCEPT !["run"] = "gather", !["fwd"] = "sleep", !["bwd"] = "loop"]
    /\ UNCHANGED <<store, now, dvars, f_max_id, b_min_id, gvars, ivars, uvars>>

\* mutant of run_download_return: the gather returns when the forward worker has
run_download_return_early ==
    /\ pc["run"] = "gather"
    /\ pc["fwd"] = "done"
    /\ pc' = [pc EXCEPT !["run"] = "returned"]
    /\ UNCHANGED <<store, db, now, upserts, dvars, fvars, bvars, gvars, ivars, uvars>>

\* line 347: asyncio.gather(task_fwd, task_bkd) returns: both tasks have returned
run_download_return ==
    /\ pc["run"] = "gather"
    /\ pc["fwd"] = "done" /\ pc["bwd"] = "done"
    /\ pc' = [pc EXCEPT !["run"] = "returned"]
    /\ UNCHANGED <<store, db, now, upserts, dvars, fvars, bvars, gvars, ivars, uvars>>

\* line 347: the gather raises the exception of the task that ended on one;
\* asyncio.run (main.py 175) then cancels the task that is still running
run_download_raise ==
    /\ pc["run"] = "gather"
    /\ pc["fwd"] = "halted" \/ pc["bwd"] = "halted"
    /\ pc' = [t \in Tasks |->
                IF t = "run" THEN "raised"
                ELSE IF t \in {"fwd", "bwd"} /\ pc[t] \notin {"done", "halted"} THEN "cancelled"
                ELSE pc[t]]
    /\ UNCHANGED <<store, db, now, upserts, dvars, fvars, bvars, gvars, ivars, uvars>>

run_download ==
    \/ run_download_list
    \/ download_many("run")
    \/ run_download_start
    \/ work_forwards
    \/ work_backwards
    \/ run_download_return
    \/ run_download_raise

----------------------------------------------------------------------------
(* Specifications *)

Off == [t \in Tasks |-> "off"]
NoBatch == [t \in Tasks |-> <<>>]

\* the state of the parts that are not running
NoPath == self_journal_id = NONE /\ file_path = <<>> /\ file_journal = NoJournal
NoPrefix == display_name = <<>> /\ author_username = <<>> /\ status_prefix = NotRead
NoInfos == [t \in {"fwd", "bwd"} |-> <<>>]
NoPeak == next_infos = NoInfos /\ peak_time_active = TRUE
IdleCommon ==
    /\ now = 0 /\ upserts = {} /\ next_batch = NoBatch /\ next_journals = NoBatch
    /\ NoPath /\ NoPrefix /\ NoPeak
IdleForwards == last_good_id = 0 /\ f_max_id = NONE
IdleBackwards == current_journal = 0 /\ b_min_id = 0
IdleGaps == total_expected = 0 /\ g_todo = <<>> /\ g_phase = "files"
NoGaps == g_min_id = 0 /\ g_max_id = NONE /\ IdleGaps
NoImport == task_queue = <<>> /\ w_pc = [w \in Workers |-> "off"] /\ w_job = [w \in Workers |-> 0]
IdleImport == NoImport /\ i_min_id = 0 /\ i_max_id = NONE

StartIds == {1, 2}

\* cmd_work_forwards: work_forwards from the newest archived journal
Init ==
    /\ IdleCommon /\ IdleBackwards /\ NoGaps /\ IdleImport
    /\ \E s \in StartIds :
          /\ store = (s :> Artifact(OkPage, 0))
          /\ db = (s :> save_row(s, OkPage, 0))
          /\ last_good_id = s
    /\ f_max_id \in {NONE, MaxId - 1, MaxId}
    /\ pc = [Off EXCEPT !["fwd"] = "sleep"]

Next == work_forwards

Spec == Init /\ [][Next]_vars

\* work_forwards on a site that answers in the end: a request that can succeed
\* does not fail in transport for ever
FairFetch ==
    \A i \in IDs : /\ WF_vars(download_journal("fwd", i))
                   /\ WF_vars(download_journal_cookies("fwd", i))

SpecFetch == Init /\ [][Next]_vars /\ FairFetch

\* work_forwards scheduled by the event loop: every sleep ends, every request
\* returns, and the worker takes the step it has come to
FairForwards ==
    /\ FairFetch
    /\ WF_vars(work_forwards_next_batch) /\ WF_vars(work_forwards_empty_batch)
    /\ WF_vars(work_forwards_retry) /\ WF_vars(work_forwards_save)
    /\ WF_vars(work_forwards_peak)

SpecForwardsFair == Init /\ [][Next]_vars /\ FairForwards

\* cmd_work_backwards: work_backwards from the oldest archived journal
InitBack ==
    /\ IdleCommon /\ IdleForwards /\ NoGaps /\ IdleImport
    /\ \E s \in {MaxId - 1, MaxId} :
          /\ store = (s :> Artifact(OkPage, 0))
          /\ db = (s :> save_row(s, OkPage, 0))
          /\ current_journal = s
    /\ b_min_id \in {0, 1}
    /\ pc = [Off EXCEPT !["bwd"] = "loop"]

NextBack == work_backwards

SpecBack == InitBack /\ [][NextBack]_vars

\* work_backwards on a site that answers in the end: the event loop runs the
\* worker whenever it can go on, and no request fails in transport for ever
FairBack ==
    /\ WF_vars(work_backwards_next_batch)
    /\ WF_vars(work_backwards_save)
    /\ WF_vars(work_backwards_peak)
    /\ \A i \in IDs : /\ WF_vars(download_journal("bwd", i))
                      /\ WF_vars(download_journal_cookies("bwd", i))

SpecBackFair == InitBack /\ [][NextBack]_vars /\ FairBack

\* test-download and import-downloads, run one after another, from an archive
\* that holds one file and no database entry
InitSave ==
    /\ IdleCommon /\ IdleForwards /\ IdleBackwards /\ NoGaps /\ IdleImport
    /\ \E p \in {OkPage, PrivatePage, Truncated} : store = (4 :> Artifact(p, 0))
    /\ db = <<>>
    /\ pc = [Off EXCEPT !["test"] = "idle"]

\* the fill-gaps command, on any archive and any database over the first few IDs
MaxGapId == 4
GapIds == 1..MaxGapId
GapPages == {OkPage, NotFoundPage, Truncated}

InitGaps ==
    /\ IdleCommon /\ IdleForwards /\ IdleBackwards /\ IdleGaps /\ IdleImport
    /\ \E S \in SUBSET GapIds : store \in [S -> {Artifact(p, 0) : p \in GapPages}]
    /\ \E S \in SUBSET GapIds : db = [i \in S |-> save_row(i, OkPage, 0)]
    /\ g_min_id \in {0, 2}
    /\ g_max_id \in {NONE, MaxGapId - 1}
    /\ pc = [Off EXCEPT !["gaps"] = "start"]

NextGaps == fill_gaps

SpecGaps == InitGaps /\ [][NextGaps]_vars

NextSave == Tick \/ test_download \/ import_downloads

SpecSave == InitSave /\ [][NextSave]_vars

\* every page the classifier can be given, feature by feature
AllPages ==
    {Page(c, s, m, pr, d, pe, pa, "") :
        c \in BOOLEAN, s \in BOOLEAN, m \in SUBSET {NOT_IN_DB, ISE}, pr \in BOOLEAN,
        d \in {"", "someuser"}, pe \in {"", "its owner"}, pa \in BOOLEAN}

\* import-downloads over an archive that holds one file, of any page
InitClassify ==
    /\ IdleCommon /\ IdleForwards /\ IdleBackwards /\ NoGaps /\ IdleImport
    /\ \E p \in AllPages : store = (4 :> Artifact(p, 0))
    /\ db = <<>>
    /\ pc = [Off EXCEPT !["test"] = "idle"]

NextClassify == import_downloads

SpecClassify == InitClassify /\ [][NextClassify]_vars

\* import-downloads over a range, run any number of times, on any archive that
\* holds the first few IDs, some of them with a row already
ImportIds == 1..3
ImportPages == {OkPage, NotFoundPage, PrivatePage, Truncated}

InitImport ==
    /\ IdleCommon /\ IdleForwards /\ IdleBackwards /\ NoGaps /\ NoImport
    /\ store \in [ImportIds -> {Artifact(p, 0) : p \in ImportPages}]
    /\ \E S \in SUBSET ImportIds : db = [i \in S |-> save_row(i, OkPage, 0)]
    /\ i_min_id \in {0, 2}
    /\ i_max_id \in {NONE, 2}
    /\ pc = [Off EXCEPT !["test"] = "idle"]

NextImport == import_downloads

SpecImport == InitImport /\ [][NextImport]_vars

\* the file name of a journal and the journal of that file name, for the IDs
\* around each point where a shard or the number of digits changes
PathSpan == 2
PathPoints == {0, 10, 100, 1000, 10000, 100000, 1000000, 1001000, 2000000, 10000000,
               100000000, 1000000000}
PathIds == {n \in {b + d : b \in PathPoints, d \in (0 - PathSpan)..PathSpan} : n >= 0}

InitPath ==
    /\ now = 0 /\ upserts = {} /\ next_batch = NoBatch /\ next_journals = NoBatch /\ NoPrefix
    /\ NoPeak
    /\ IdleForwards /\ IdleBackwards /\ NoGaps /\ IdleImport
    /\ store = <<>> /\ db = <<>>
    /\ pc = Off
    /\ self_journal_id \in PathIds
    /\ file_path = <<>> /\ file_journal = NoJournal

NextPath == journal_html_filename_get \/ from_file_path_call

SpecPath == InitPath /\ [][NextPath]_vars

\* the status prefix of every short display name against every short username
MaxNameLen == 3
MaxUserLen == 2
NameChars == {INFINITY, "!", "~", "-", "_", "A", "a", "b"}
UserChars == {"a", "b", "-"}
SeqsUpTo(S, n) == UNION {[1..k -> S] : k \in 0..n}

InitPrefix ==
    /\ now = 0 /\ upserts = {} /\ next_batch = NoBatch /\ next_journals = NoBatch /\ NoPath
    /\ NoPeak
    /\ IdleForwards /\ IdleBackwards /\ NoGaps /\ IdleImport
    /\ store = <<>> /\ db = <<>>
    /\ pc = Off
    /\ display_name \in SeqsUpTo(NameChars, MaxNameLen)
    /\ author_username \in SeqsUpTo(UserChars, MaxUserLen) \ {<<>>}
    /\ status_prefix = NotRead

NextPrefix == author_status_prefix_get

SpecPrefix == InitPrefix /\ [][NextPrefix]_vars

\* download_many on a full batch of IDs, none of them archived
InitBatch ==
    /\ now = 0 /\ upserts = {} /\ NoPath /\ NoPrefix /\ NoPeak
    /\ IdleForwards /\ IdleBackwards /\ NoGaps /\ IdleImport
    /\ store = <<>> /\ db = <<>>
    /\ next_batch = [NoBatch EXCEPT !["batch"] = range(1, 1 + BatchSize)]
    /\ next_journals = NoBatch
    /\ pc = [Off EXCEPT !["batch"] = "download"]

NextBatch == download_many("batch") \/ download_many_return

SpecBatch == InitBatch /\ [][NextBatch]_vars

\* cmd_run_download on an archive of no file, one file or two, each with its row
RunArchives == {{}, {3}, {2, 3}}

InitRun ==
    /\ IdleCommon /\ NoGaps /\ IdleImport
    /\ last_good_id = 0 /\ current_journal = 0
    /\ b_min_id = 1
    /\ f_max_id \in {NONE, MaxId}
    /\ \E S \in RunArchives :
          /\ store = [i \in S |-> Artifact(OkPage, 0)]
          /\ db = [i \in S |-> save_row(i, OkPage, 0)]
    /\ pc = [Off EXCEPT !["run"] = "start"]

NextRun == run_download

SpecRun == InitRun /\ [][NextRun]_vars

\* the process stops at any point while the workers run (one of them may have
\* ended on an exception) and the command is run again: the archive and the
\* database are what is left
restart ==
    /\ pc["run"] = "gather"
    /\ pc' = [Off EXCEPT !["run"] = "start"]
    /\ next_batch' = NoBatch /\ next_journals' = NoBatch
    /\ last_good_id' = 0 /\ current_journal' = 0
    /\ next_infos' = NoInfos /\ peak_time_active' = TRUE
    /\ UNCHANGED <<store, db, now, upserts, f_max_id, b_min_id, gvars, ivars, pvars, avars>>

\* run-download, stopped and run again any number of times
NextRestart == run_download \/ restart

SpecRestart == InitRun /\ [][NextRestart]_vars

\* Journal.save with just_update, on any archive of two files and any table
UpdateIds == {1, 2}
UpdatePages == {OkPage, NotFoundPage, DisabledPage, Truncated}

InitUpdate ==
    /\ IdleCommon /\ IdleForwards /\ IdleBackwards /\ NoGaps /\ IdleImport
    /\ store \in [UpdateIds -> {Artifact(p, t) : p \in UpdatePages, t \in 0..MaxClock}]
    /\ \E S \in SUBSET UpdateIds, f \in [UpdateIds -> UpdatePages \ {Truncated}] :
          db = [i \in S |-> save_row(i, f[i], 0)]
    /\ pc = [Off EXCEPT !["update"] = "idle"]

NextUpdate == save_just_update

SpecUpdate == InitUpdate /\ [][NextUpdate]_vars

\* every command of the tool, each run alone from its own initial state
InitAll == Init \/ InitBack \/ InitGaps \/ InitSave \/ InitRun

NextAll ==
    \/ work_forwards \/ work_backwards \/ fill_gaps \/ test_download \/ import_downloads
    \/ run_download_list \/ download_many("run") \/ run_download_start
    \/ run_download_return \/ run_download_raise

SpecAll == InitAll /\ [][NextAll]_vars

\* the fill-gaps command run while a work-forwards process is live on the same
\* archive and the same database, which holds journal 1
InitLive ==
    /\ IdleCommon /\ IdleBackwards /\ NoGaps /\ IdleImport
    /\ store = (1 :> Artifact(OkPage, 0))
    /\ db = (1 :> save_row(1, OkPage, 0))
    /\ last_good_id = 1
    /\ f_max_id = NONE
    /\ pc = [Off EXCEPT !["fwd"] = "sleep", !["gaps"] = "start"]

NextLive == work_forwards \/ fill_gaps

SpecLive == InitLive /\ [][NextLive]_vars

\* a forward and a backward worker from journal 3, on a site whose pages show
\* the site status
InitPeak ==
    /\ IdleCommon /\ NoGaps /\ IdleImport
    /\ store = (3 :> Artifact(OkPage, 0))
    /\ db = (3 :> save_row(3, OkPage, 0))
    /\ last_good_id = 3 /\ f_max_id = NONE
    /\ current_journal = 3 /\ b_min_id = 1
    /\ pc = [Off EXCEPT !["fwd"] = "sleep", !["bwd"] = "loop", !["peak"] = "on"]

NextPeak == work_forwards \/ work_backwards

SpecPeak == InitPeak /\ [][NextPeak]_vars

----------------------------------------------------------------------------
(* Properties *)

FwdBatch == Range(next_batch["fwd"])
FwdJournals == next_journals["fwd"]
\* the IDs of the forward batch whose page is not the "not in our database" error page
FwdFound == {i \in FwdBatch : ~journal_deleted(FwdJournals[i].page)}
\* the row Journal.save writes for a downloaded journal of task t
SavedRow(t, i) == save_row(i, next_journals[t][i].page, next_journals[t][i].date)

\* the page of a journal of the allow-list that renders as the known server error
BrokenPage(i, p) ==
    i \in BROKEN_JOURNALS /\ check_errors(p) = "FASystemError" /\ broken_err_in(p)

\* the journals of the forward batch that the worker saves
FwdSaved == {i \in FwdBatch : i <= last_good_id}

\* a page outside the taxonomy of expected outcomes: a system error that is not the
\* known one of the allow-list, or markup that cannot be parsed
Unclassified(i, p) ==
    \/ check_errors(p) = "FASystemError" /\ ~BrokenPage(i, p)
    \/ check_errors(p) = "None" /\ to_json_raises(p)

\* C1: when a forward batch holds a journal that is not NotFound, last_good_id
\* becomes the highest such ID of the batch, and every ID of the batch up to it
\* has its row in the database, the NotFound ones included, whenever each of them
\* has one of the expected outcomes.  (A private or an incomplete page among them
\* ends the worker and rows are missing.)
C1_FrontierPersisted ==
    pc["fwd"] \in {"saved", "halted"} =>
        /\ FwdFound # {} /\ last_good_id = Max(FwdFound)
        /\ (\A k \in FwdSaved : ~Unclassified(k, FwdJournals[k].page)) =>
              \A i \in FwdSaved : i \in DOMAIN db /\ db[i] = SavedRow("fwd", i)

\* C2: work_forwards never writes a row for an ID above last_good_id, and at
\* every point between two batches no file of an ID above last_good_id is left.
C2_NothingAboveFrontier ==
    /\ \A i \in DOMAIN db : i <= last_good_id
    /\ pc["fwd"] \in {"sleep", "saved", "empty_batch_sleep", "done"} =>
          \A i \in DOMAIN store : i <= last_good_id

\* a saved batch with a downloaded journal above last_good_id, whose file is gone
C2_Witness ==
    /\ pc["fwd"] = "saved"
    /\ \E i \in FwdBatch : i > last_good_id /\ i \notin DOMAIN store /\ i \notin DOMAIN db

\* the forward batch is downloaded and every page of it classifies as NotFound
AllNotFound ==
    /\ pc["fwd"] = "download"
    /\ Downloaded("fwd")
    /\ \A i \in FwdBatch : check_errors(FwdJournals[i].page) = "JournalNotFound"

\* the iteration before this sleep found no good journal
AfterEmptyBatch ==
    /\ pc["fwd"] = "sleep"
    /\ next_batch["fwd"] # <<>>
    /\ good_ids(FwdJournals) = {}

\* C3: a forward batch of NotFound pages only: no row is written, every file of
\* the batch is deleted, last_good_id stays, the worker sleeps the empty-batch
\* sleep, and the batch it then tries is the same one.
C3_EmptyBatch ==
    [][ /\ (AllNotFound /\ pc' # pc) =>
              /\ db' = db
              /\ last_good_id' = last_good_id
              /\ \A i \in FwdBatch : i \notin DOMAIN store'
              /\ pc'["fwd"] = "empty_batch_sleep"
        /\ pc["fwd"] = "empty_batch_sleep" =>
              pc'["fwd"] \in {"empty_batch_sleep", "sleep"} /\ UNCHANGED <<db, store, fvars, dvars>>
        /\ (AfterEmptyBatch /\ pc' # pc) =>
              pc'["fwd"] = "download" /\ next_batch'["fwd"] = next_batch["fwd"]
      ]_vars

\* the worker sleeps after a full batch of NotFound pages, its files deleted and
\* no row written for it
C3_Witness ==
    /\ pc["fwd"] = "empty_batch_sleep"
    /\ Len(next_batch["fwd"]) = BatchSize
    /\ next_batch["fwd"][1] = last_good_id + 1
    /\ \A i \in FwdBatch :
          /\ check_errors(FwdJournals[i].page) = "JournalNotFound"
          /\ i \notin DOMAIN store /\ i \notin DOMAIN db

\* C4: once fill_gaps is done, every ID from the lowest to the highest archived
\* file of the bounds has a file and a row.  (The code does not establish it.)
C4_GapsFilled ==
    pc["gaps"] = "done" =>
        LET all_journals == Range(list_journals_truncated(store, g_min_id, g_max_id))
        IN all_journals # {} =>
              \A i \in Min(all_journals)..Max(all_journals) :
                  i \in DOMAIN store /\ i \in DOMAIN db

WellFormedRow(r) ==
    /\ r.is_deleted <=> r.error # NULL
    /\ r.error # NULL <=> r.json = <<>>

\* C5: in every row handed to add_entry, and in every row of the table,
\* is_deleted holds exactly when the error is set, exactly when the json is null.
C5_RowInvariant ==
    /\ \A u \in upserts : WellFormedRow(u.row)
    /\ \A i \in DOMAIN db : WellFormedRow(db[i])

\* an error row has just been written over the row of a good journal's neighbour
C5_Witness ==
    /\ \E u \in upserts : u.row.is_deleted /\ u.row.error # NULL /\ db[u.id].is_deleted
    /\ \E i \in DOMAIN db : ~db[i].is_deleted /\ db[i].json # <<>>

\* C6: after add_entry the stored row equals the written values in every column,
\* archive_datetime included.  (The conflict clause does not write that column.)
C6_LastWriteWins ==
    \A u \in upserts : u.id \in DOMAIN db /\ db[u.id] = u.row

\* C7: a save of the same page for the same journal as the save just before it
\* leaves the table as it was, the row of that journal included.
C7_SaveIdempotent ==
    [][ \A u \in upserts' : u.again => db' = db ]_vars

\* the same file has been saved twice in a row, the clock having moved on
C7_Witness ==
    \E u \in upserts : u.again /\ now > u.row.archive_datetime /\ u.id \in DOMAIN db

\* a journal of the allow-list, downloaded with its known error page in the forward batch
FwdBroken(i) ==
    /\ i \in FwdBatch /\ i \in DOMAIN FwdJournals
    /\ FwdJournals[i].stage = "done"
    /\ BrokenPage(i, FwdJournals[i].page)

\* the deleted row with the literal message, and no halt of the worker on its account
BrokenSavedNotFatal(i) ==
    /\ (pc["fwd"] = "saved" /\ i <= last_good_id) =>
          /\ i \in DOMAIN db
          /\ db[i] = Row(TRUE, FwdJournals[i].date, BROKEN_JOURNAL_ERR, FwdJournals[i].page.login, <<>>)
    /\ pc["fwd"] = "halted" =>
          \E k \in FwdSaved : k # i /\ save_raises(k, FwdJournals[k].page)

C9_IncompleteNeverSaved ==
    /\ \A u \in upserts : ~is_data_incomplete(u.page)
    /\ \A i \in DOMAIN db : db[i].json # <<>> => ~is_data_incomplete(db[i].json[1].page)

\* the forward worker has met an incomplete page among the journals to save: no row
C9_Witness ==
    /\ pc["fwd"] = "halted"
    /\ \E i \in FwdSaved : is_data_incomplete(FwdJournals[i].page) /\ i \notin DOMAIN db

\* C10: an incomplete page does not halt the worker: when work_forwards ends on
\* an exception, a journal that is not incomplete raised it.  (The code halts.)
C10_IncompleteNotFatal ==
    pc["fwd"] = "halted" =>
        \E i \in FwdSaved :
            save_raises(i, FwdJournals[i].page) /\ ~is_data_incomplete(FwdJournals[i].page)

\* C11: a journal whose page is "registered users only" also with the cookies is
\* saved as a deleted row with an error, and the forward worker goes on: when it
\* ends on an exception, a journal with another page raised it.  (The code ends.)
C11_PrivateFallback ==
    pc["fwd"] \in {"saved", "halted"} =>
        \A i \in FwdSaved :
            (FwdJournals[i].page.login # "" /\ check_errors(FwdJournals[i].page) = "RegisteredUsersOnly") =>
                /\ pc["fwd"] = "saved" =>
                      i \in DOMAIN db /\ db[i].is_deleted /\ db[i].error # NULL
                /\ pc["fwd"] = "halted" =>
                      \E k \in FwdSaved :
                          /\ save_raises(k, FwdJournals[k].page)
                          /\ check_errors(FwdJournals[k].page) # "RegisteredUsersOnly"

\* C12: while a request of the batch is outstanding the forward worker stays in
\* download_many, whatever fails in transport (nothing is returned or raised to
\* it), and when the transport succeeds in the end every journal of the batch is
\* returned to it, downloaded.
C12_FetchReturns ==
    /\ [][ (pc["fwd"] = "download" /\ ~Downloaded("fwd")) =>
              (pc'["fwd"] = "download" /\ next_batch' = next_batch) ]_vars
    /\ \A i \in IDs :
          (pc["fwd"] = "download" /\ i \in FwdBatch)
              ~> (i \in DOMAIN FwdJournals /\ FwdJournals[i].stage = "done")

\* a request has failed while the body was written: the file is there, truncated,
\* and the journal has not been returned
C12_Witness ==
    /\ pc["fwd"] = "download"
    /\ \E i \in FwdBatch :
          /\ i \notin DOMAIN FwdJournals
          /\ i \in DOMAIN store /\ store[i].page = Truncated

\* the journals the worker t hands to save_many after its download
SaveSet(t) == IF t = "fwd" THEN FwdSaved ELSE Range(next_batch[t])

\* a worker whose batch to save holds an unclassified page has ended on the
\* exception, with no row for that journal; and no save has reached add_entry
\* with such a page
UnclassifiedIsFatal ==
    /\ \A u \in upserts : ~Unclassified(u.id, u.page)
    /\ \A t \in {"fwd", "bwd"} :
          pc[t] \in {"saved", "halted"} =>
              \A i \in SaveSet(t) :
                  Unclassified(i, next_journals[t][i].page) =>
                      pc[t] = "halted" /\ i \notin DOMAIN db

\* C13: a system error page of a journal that is not on the allow-list, or a good
\* page whose extraction fails, is never saved, as itself or as anything else; the
\* worker that meets it ends on the exception and takes no further step: no new
\* batch, no download.
C13_UnclassifiedFatal ==
    [][ /\ UnclassifiedIsFatal'
        /\ \A t \in {"fwd", "bwd"} :
              pc[t] = "halted" =>
                  /\ pc'[t] = "halted"
                  /\ next_batch'[t] = next_batch[t] /\ next_journals'[t] = next_journals[t] ]_vars

\* the forward worker has ended on a system error page of a journal that is not
\* on the allow-list; the journal has no row
C13_Witness ==
    /\ pc["fwd"] = "halted"
    /\ \E i \in FwdSaved :
          /\ check_errors(FwdJournals[i].page) = "FASystemError"
          /\ i \notin BROKEN_JOURNALS /\ i \notin DOMAIN db

\* the first outcome, in the order of the classifier, that the features of p match
FirstMatch(p) ==
    IF ~p.complete THEN "DataIncomplete"
    ELSE IF p.syserr /\ NOT_IN_DB \in p.msg THEN "JournalNotFound"
    ELSE IF p.syserr THEN "FASystemError"
    ELSE IF p.private THEN "RegisteredUsersOnly"
    ELSE IF p.disabled # "" THEN "AccountDisabled"
    ELSE IF p.pending # "" THEN "PendingDeletion"
    ELSE "None"

\* C14: for every combination of the features of a page, check_errors gives the
\* first match in the order incomplete, not found, system error, registered users
\* only, account disabled, pending deletion, and returns only when none matches;
\* the row saved from a page is a good row exactly when none matches.
C14_StrictPriority ==
    /\ \A i \in DOMAIN store : check_errors(store[i].page) = FirstMatch(store[i].page)
    /\ \A u \in upserts :
          /\ check_errors(u.page) = FirstMatch(u.page)
          /\ ~u.row.is_deleted <=> FirstMatch(u.page) = "None"

\* a complete page that is a "not in our database" system error and carries the
\* three notices as well has been saved as not found
C14_Witness ==
    \E u \in upserts :
        /\ u.page.syserr /\ NOT_IN_DB \in u.page.msg /\ u.page.private
        /\ u.page.disabled # "" /\ u.page.pending # ""
        /\ u.row.error = "Journal not found"

RunBatch(t) == IF pc["run"] = "gather" THEN Range(next_batch[t]) ELSE {}

\* the IDs of the batches of the two workers are apart, and each batch is on its
\* side of the point the other worker has reached
BatchesApart ==
    /\ \A i \in RunBatch("fwd"), k \in RunBatch("bwd") : i > k
    /\ \A i \in RunBatch("fwd") : i > current_journal
    /\ \A k \in RunBatch("bwd") : k < last_good_id

\* C15: in a run of run_download every ID of a batch of the forward worker is
\* above every ID of a batch of the backward worker; a forward batch lies above
\* the point the backward worker has reached and a backward batch below the point
\* the forward worker has reached, and neither point ever moves towards the other:
\* so no ID that one worker downloads or saves is ever one the other does.
C15_WorkersDisjoint ==
    [][ /\ BatchesApart'
        /\ (pc["run"] = "gather" /\ pc'["run"] = "gather") =>
              /\ last_good_id' >= last_good_id
              /\ current_journal' <= current_journal ]_vars

\* both workers have saved a batch
C15_Witness ==
    /\ pc["run"] = "gather"
    /\ pc["fwd"] = "saved" /\ pc["bwd"] = "saved"
    /\ \E i \in RunBatch("fwd"), k \in RunBatch("bwd") : i \in DOMAIN db /\ k \in DOMAIN db

\* the IDs of the batch of task t whose download has not returned: the anonymous
\* request is out, or the page was private and the request with the cookies is
Outstanding(t) ==
    IF pc[t] = "download"
    THEN {i \in Range(next_batch[t]) :
            i \in DOMAIN next_journals[t] => next_journals[t][i].stage # "done"}
    ELSE {}

\* C16: each worker has at most batch_size downloads outstanding, one per ID of
\* its batch and no ID twice in a batch; a page fetched with the cookies is only
\* ever the answer for an ID whose anonymous request had returned a private page.
C16_BoundedFetches ==
    [][ \A t \in {"fwd", "bwd", "run"} :
          /\ (Cardinality(Outstanding(t)) <= BatchSize)'
          /\ (Len(next_batch[t]) = Cardinality(Range(next_batch[t])))'
          /\ \A i \in DOMAIN next_journals'[t] :
                next_journals'[t][i].page.login # "" =>
                    /\ i \in DOMAIN next_journals[t]
                    /\ \/ next_journals[t][i].stage = "private"
                       \/ next_journals[t][i] = next_journals'[t][i] ]_vars

\* the forward worker has a full batch outstanding, one of its journals waiting
\* for the answer to the request with the cookies, while the backward worker
\* downloads too
C16_Witness ==
    /\ Cardinality(Outstanding("fwd")) = BatchSize
    /\ \E i \in Outstanding("fwd") :
          i \in DOMAIN FwdJournals /\ FwdJournals[i].stage = "private"
    /\ Outstanding("bwd") # {}

\* C17: whenever the forward worker is about to take a batch, also after the
\* process was stopped and started again, the ID it starts from has its row, and
\* so has every ID from the point of the backward worker up to it: no ID that was
\* only downloaded is taken for the newest good one, none is skipped unsaved.
\* (The start is the newest file of the archive, saved or not.)
C17_RestartSafe ==
    (pc["run"] = "gather" /\ pc["fwd"] = "sleep") =>
        \A i \in current_journal..last_good_id : i \in DOMAIN db

\* C18: run_download awaits both workers, started together; when it has returned
\* both have returned, the forward one with no ID left below max_id and the
\* backward one with none left above min_id.
C18_ReturnsAfterBoth ==
    /\ pc["run"] \in {"gather", "returned"} => pc["fwd"] # "off" /\ pc["bwd"] # "off"
    /\ pc["run"] = "returned" =>
          /\ pc["fwd"] = "done" /\ pc["bwd"] = "done"
          /\ f_max_id # NONE /\ last_good_id + 1 >= f_max_id
          /\ current_journal <= b_min_id

\* run_download has returned, both workers having saved journals on their way
C18_Witness ==
    /\ pc["run"] = "returned"
    /\ \E i, k \in DOMAIN db : k <= b_min_id /\ i + 1 >= f_max_id

\* C19: an update of a journal that has no row reports an error and leaves the
\* table as it was.  (The UPDATE matches no row and returns without an error.)
C19_UpdateAbsentErrors ==
    [][ \A i \in IDs :
          (next_batch'["update"] = <<i>> /\ i \notin DOMAIN db) =>
              (pc'["update"] = "raised" /\ db' = db) ]_vars

\* the IDs of the rows in the bounds of fill_gaps
GapRows == {i \in DOMAIN db : InBounds(i, g_min_id, g_max_id)}

\* C20: when fill_gaps lists the database entries, the listing is the IDs of the
\* rows in the bounds, each once, in ascending order, and the gaps it goes on to
\* visit are those between consecutive IDs of that ascending list.  (The SELECT
\* has no ORDER BY: the rows come in whatever order the database returns them.)
C20_ListingAscending ==
    [][ (pc["gaps"] = "files" /\ pc'["gaps"] = "entries") =>
          /\ \A l \in list_journal_ids_truncated(db, g_min_id, g_max_id) : l = sorted(GapRows)
          /\ g_todo' = IF total_expected - Cardinality(GapRows) > 0
                       THEN missing_between(sorted(GapRows)) ELSE <<>> ]_vars

\* the start ID the claim has run_download take when --start-journal is not given
DefaultStart == IF f_max_id = NONE THEN b_min_id ELSE (b_min_id + f_max_id) \div 2

\* C21: when run_download finds no archived journal in the bounds it goes on to
\* download a start journal, the one of --start-journal when that is given, else
\* min_id or the midpoint of min_id and max_id; and both workers then start from
\* that ID, which has its row.  (With --start-journal given the code raises
\* ValueError before any download.)
C21_Bootstrap ==
    [][ /\ (pc["run"] = "start" /\ list_journals_truncated(store, b_min_id, f_max_id) = <<>>) =>
              /\ pc'["run"] = "download"
              /\ next_batch'["run"] \in {<<s>> : s \in (RunStartIds \ {NONE}) \cup {DefaultStart}}
        /\ (pc["run"] = "download" /\ pc'["run"] = "gather") =>
              /\ last_good_id' = next_batch["run"][1]
              /\ current_journal' = next_batch["run"][1]
              /\ next_batch["run"][1] \in DOMAIN db'
              /\ pc'["fwd"] = "sleep" /\ pc'["bwd"] = "loop" ]_vars

\* the archived files in the bounds of import_downloads
ImportRange == {i \in DOMAIN store : InBounds(i, i_min_id, i_max_id)}

\* import_downloads has completed: every run_worker task has returned
ImportCompleted == \A w \in Workers : w_pc[w] = "returned"

\* C22: once import_downloads has completed over its range, no file of the range
\* is a "registered users only" page and every file left in the range has its
\* row; the job of a "registered users only" file deletes the file and writes no
\* row, the job of any other file writes its row.
C22_ImportPrivateDeleted ==
    /\ ImportCompleted =>
          \A i \in ImportRange :
              check_errors(store[i].page) # "RegisteredUsersOnly" /\ i \in DOMAIN db
    /\ [][ \A w \in Workers :
              (w_pc[w] = "run" /\ w_pc'[w] # "run" /\ w_job[w] \in DOMAIN store) =>
                  LET i == w_job[w] IN
                  IF check_errors(store[i].page) = "RegisteredUsersOnly"
                  THEN i \notin DOMAIN store' /\ db' = db /\ w_pc'[w] = "get"
                  ELSE /\ store' = store
                       /\ w_pc'[w] = "get" =>
                             i \in DOMAIN db' /\ db'[i] = add_entry(db, i,
                                 save_row(i, store[i].page, store[i].mtime).is_deleted,
                                 save_row(i, store[i].page, store[i].mtime).archive_datetime,
                                 save_row(i, store[i].page, store[i].mtime).error,
                                 save_row(i, store[i].page, store[i].mtime).login_used,
                                 save_row(i, store[i].page, store[i].mtime).json)[i] ]_vars

\* the import has completed over a range that held a private file without a row
\* and a file of another page: the first is gone and has no row, the other has
\* its row, and a private file outside the range is still there
C22_Witness ==
    /\ ImportCompleted
    /\ i_min_id = 2 /\ i_max_id = NONE
    /\ 2 \notin DOMAIN store /\ 2 \notin DOMAIN db
    /\ 3 \in DOMAIN store /\ 3 \in DOMAIN db /\ db[3].error = "Journal not found"
    /\ 1 \in DOMAIN store /\ check_errors(store[1].page) = "RegisteredUsersOnly"

\* s is the decimal numeral of n, padded with zeros on the left to `width` digits
\* (and not beyond: a longer numeral has no leading zero)
ZeroPadded(s, n, width) ==
    /\ Len(s) >= width
    /\ ~int_raises(s) /\ int(s) = n
    /\ Len(s) > width => s[1] # "0"

\* C23: the path of journal n >= 0 is store, then n // 1_000_000 as 2 digits,
\* then (n % 1_000_000) // 1_000 as 3 digits, then the file named after n; no
\* other ID has that path, and from_file_path of the path gives n back.
C23_ShardedPath ==
    /\ file_path # <<>> =>
          /\ Len(file_path) = 4
          /\ file_path[1] = STORE
          /\ ZeroPadded(file_path[2], self_journal_id \div 1000000, 2)
          /\ ZeroPadded(file_path[3], (self_journal_id % 1000000) \div 1000, 3)
          /\ endswith(file_path[4], HTML)
          /\ ZeroPadded(removesuffix(file_path[4], HTML), self_journal_id, 1)
          /\ \A n \in PathIds : journal_html_filename(n) = file_path => n = self_journal_id
    /\ file_journal # NoJournal =>
          ~file_journal.raised /\ file_journal.journal_id = self_journal_id

\* the journal of a path whose two shards are both padded and both not zero has
\* been recovered from it
C23_Witness ==
    /\ self_journal_id = 1001001
    /\ file_path # <<>>
    /\ file_path[2] = <<"0", "1">> /\ file_path[3] = <<"0", "0", "1">>
    /\ file_journal.journal_id = 1001001

\* the display name lowercased, its separators stripped
Normalized(name) == SelectSeq([k \in DOMAIN name |-> lower(name[k])], LAMBDA c : c # "_")

\* s is the username, or the username cut short
TruncatedMatch(s, username) == \E k \in 0..Len(username) : s = SubSeq(username, 1, k)

\* the prefix the rules give for a display name that has a first character
InferredPrefix(name, username) ==
    LET first == name[1]
    IN IF first \in {INFINITY, "!"} THEN Returned(<<first>>)
       ELSE IF Normalized(name) = username THEN Returned(<<>>)
       ELSE IF first \in {"~", "-"} /\ TruncatedMatch(Tail(Normalized(name)), username)
            THEN Returned(<<first>>)
       ELSE Raised

\* C24: without the prefix markup, a first character infinity or ! is the prefix
\* whatever follows; else the prefix is empty when the normalized display name is
\* the username; else a first character ~ or - is the prefix when the rest of the
\* normalized display name is the username or the username cut short; in every
\* other case the extraction raises; and a prefix that is returned is a key of
\* prefix_to_meaning.
C24_PrefixInference ==
    status_prefix # NotRead =>
        /\ display_name # <<>> => status_prefix = InferredPrefix(display_name, author_username)
        /\ display_name = <<>> => status_prefix.raised
        /\ ~status_prefix.raised => status_prefix.prefix \in DOMAIN prefix_to_meaning

\* a display name that was cut short: the prefix ~ is found from the part left
C24_Witness ==
    /\ display_name = <<"~", "A", "_">> /\ author_username = <<"a", "b">>
    /\ status_prefix = Returned(<<"~">>)
    /\ prefix_to_meaning[status_prefix.prefix] = "Member"

\* the journal of ID i of the batch of task t came from the request with cookies
Authenticated(j) == j.page.login # ""

\* per ID of a batch: no second request with the cookies; the journal returned is
\* the one of the last request made, and so is the file
OncePerIdLastFetchWins ==
    /\ [][ \A i \in DOMAIN next_journals["batch"] :
              Authenticated(next_journals["batch"][i]) =>
                  next_journals'["batch"][i] = next_journals["batch"][i] ]_vars
    /\ [](pc["batch"] = "returned" =>
              \A i \in Range(next_batch["batch"]) :
                  /\ next_journals["batch"][i].stage = "done"
                  /\ store[i].page = next_journals["batch"][i].page)

\* C25, as amended: download_many makes the request with cookies for an ID exactly
\* when the anonymous answer for that ID carries the "registered users only"
\* notice (info.account_private), whatever the page classifies as; at most once
\* per ID; the journal returned is that of the last request made, and its page is
\* the content of the file.
C25_RetryOnPrivateFlag ==
    /\ [][ \A i \in DOMAIN next_journals'["batch"] :
              Authenticated(next_journals'["batch"][i]) =>
                  /\ i \in DOMAIN next_journals["batch"]
                  /\ \/ Authenticated(next_journals["batch"][i])
                     \/ account_private(next_journals["batch"][i].page) ]_vars
    /\ [](\A i \in DOMAIN next_journals["batch"] :
              LET j == next_journals["batch"][i] IN
              (~Authenticated(j) /\ account_private(j.page)) => j.stage = "private")
    /\ OncePerIdLastFetchWins

\* the anonymous answer for one ID was cut short after the notice and its request
\* with cookies is to come, while another ID of the batch has the page of its
\* request with cookies, which is the content of its file
C25_Witness ==
    /\ pc["batch"] = "download"
    /\ 1 \in DOMAIN next_journals["batch"] /\ 2 \in DOMAIN next_journals["batch"]
    /\ next_journals["batch"][1].page = TruncatedPrivate
    /\ next_journals["batch"][1].stage = "private"
    /\ Authenticated(next_journals["batch"][2])
    /\ store[2].page = next_journals["batch"][2].page

\* C25, as claimed: the request with cookies is made exactly when the anonymous
\* answer classified as AccountPrivate.
C25_RetryOnPrivateClass ==
    /\ [][ \A i \in DOMAIN next_journals'["batch"] :
              Authenticated(next_journals'["batch"][i]) =>
                  /\ i \in DOMAIN next_journals["batch"]
                  /\ \/ Authenticated(next_journals["batch"][i])
                     \/ check_errors(next_journals["batch"][i].page) = "RegisteredUsersOnly" ]_vars
    /\ [](\A i \in DOMAIN next_journals["batch"] :
              LET j == next_journals["batch"][i] IN
              (~Authenticated(j) /\ check_errors(j.page) = "RegisteredUsersOnly") =>
                  j.stage = "private")
    /\ OncePerIdLastFetchWins

\* the IDs the claim has the forward worker take next
ForwardReach ==
    (last_good_id + 1)..(IF f_max_id = NONE THEN last_good_id + BatchSize
                         ELSE min(last_good_id + BatchSize, f_max_id))

\* C26: each forward batch is the IDs last_good_id + 1 up to last_good_id +
\* batch_size, or up to max_id when that is lower, both ends included, in
\* ascending order; so the journal max_id itself is downloaded when the batch
\* reaches it and none above it is; and the worker returns exactly when that set
\* is empty.  (The code's range stops before max_id: the journal max_id is never
\* downloaded and the worker returns with it still to do.)
C26_ForwardBatch ==
    [][ (pc["fwd"] = "sleep" /\ pc'["fwd"] # "sleep") =>
          /\ next_batch'["fwd"] = sorted(ForwardReach)
          /\ pc'["fwd"] = "done" <=> ForwardReach = {}
          /\ \A i \in Range(next_batch'["fwd"]) : f_max_id # NONE => i <= f_max_id ]_vars

BwdBatch == Range(next_batch["bwd"])
BwdJournals == next_journals["bwd"]

\* the backward batch taken is the IDs from max(min_id, current - batch_size) up
\* to current - 1, in ascending order, and the worker returns when there is none
BackwardBatchShape ==
    (pc["bwd"] = "loop" /\ pc'["bwd"] # "loop") =>
        /\ next_batch'["bwd"] =
              sorted(max(b_min_id, current_journal - BatchSize)..(current_journal - 1))
        /\ pc'["bwd"] = "done" <=> next_batch'["bwd"] = <<>>
        /\ \A i \in Range(next_batch'["bwd"]) : i >= b_min_id

\* the save of a backward batch moves current_journal to the lowest ID of the batch
BackwardAdvance ==
    (pc["bwd"] = "download" /\ pc'["bwd"] = "saved") =>
        current_journal' = Min(BwdBatch) /\ next_batch' = next_batch

\* C27: each backward batch is the IDs from max(min_id, current - batch_size) up
\* to but not including current, none below min_id; once it is downloaded every
\* ID of it gets its row, whatever its page classifies as ("not found" and
\* "registered users only" included; an incomplete or an unclassified page
\* aside), and current_journal becomes the lowest ID of the batch.  (A page that
\* is still "registered users only" with the cookies ends the worker instead.)
C27_BackwardBatch ==
    /\ [][BackwardBatchShape /\ BackwardAdvance]_vars
    /\ [](pc["bwd"] \in {"saved", "halted"} =>
            ((\A k \in BwdBatch : /\ ~is_data_incomplete(BwdJournals[k].page)
                                  /\ ~Unclassified(k, BwdJournals[k].page)) =>
                 /\ pc["bwd"] = "saved"
                 /\ \A i \in BwdBatch : i \in DOMAIN db /\ db[i] = SavedRow("bwd", i)))

\* the parts of C27 that do not depend on what the pages classify as
C27_ShapeAndAdvance == [][BackwardBatchShape /\ BackwardAdvance]_vars

\* the journal work_backwards started from: the only row above the ones it writes
BwdStart == Max(DOMAIN db)

StaleClass(p) == check_errors(p) \in {"DataIncomplete", "JournalNotFound", "RegisteredUsersOnly"}

\* what fill_gaps does with a missing entry it visits whose file exists: a stale
\* file is deleted and the journal goes to download_and_save, nothing written
\* yet; any other file stays as it is, nothing is downloaded, and the row is
\* written from it (or the save raises and the command ends)
GapTreatment ==
    (pc["gaps"] = "entries" /\ g_todo # <<>> /\ Head(g_todo) \in DOMAIN store) =>
        LET i == Head(g_todo)
            p == store[i].page
        IN IF StaleClass(p)
           THEN /\ i \notin DOMAIN store' /\ db' = db
                /\ pc'["gaps"] = "download" /\ next_batch'["gaps"] = <<i>>
                /\ next_journals'["gaps"] = <<>>
           ELSE /\ store' = store /\ pc'["gaps"] \in {"entries", "halted"}
                /\ next_batch' = next_batch
                /\ pc'["gaps"] = "entries" <=> ~save_raises(i, p)
                /\ pc'["gaps"] = "entries" =>
                      i \in DOMAIN db' /\ db'[i] = save(db, i, p, store[i].mtime)[i]

\* C29: fill_gaps treats every ID of the bounds that has a file and no row: a
\* file that classifies as Incomplete, NotFound or AccountPrivate is deleted and
\* the journal downloaded again before its row is written, any other file is
\* left as it is and its row written from it without a download; so when
\* fill_gaps is done every file of the bounds has its row.  (Only the IDs
\* between two listed rows are visited.)
C29_GapRepair ==
    /\ [][GapTreatment]_vars
    /\ [](pc["gaps"] = "done" =>
            \A i \in DOMAIN store : InBounds(i, g_min_id, g_max_id) => i \in DOMAIN db)

\* the part of C29 about the IDs fill_gaps does visit
C29_Treatment == [][GapTreatment]_vars

\* the row of journal i is the same before and after the step
SameRow(i) == (i \in DOMAIN db' <=> i \in DOMAIN db) /\ (i \in DOMAIN db => db'[i] = db[i])

\* the batch that worker t handled last is settled: what it was to save has its
\* row and what it was to delete has no file
Settled(t) ==
    IF t = "fwd"
    THEN \A i \in FwdBatch : IF i <= last_good_id THEN i \in DOMAIN db ELSE i \notin DOMAIN store
    ELSE \A i \in BwdBatch : i \in DOMAIN db

\* C30: a worker saves or deletes no journal of its batch while a request of the
\* batch, the one with cookies included, is still out; and it takes its next
\* batch, and downloads for it, only from the top of its loop, where every save
\* and delete of the batch before is done.
C30_BatchesJoined ==
    [][ \A t \in {"fwd", "bwd"} :
          /\ (pc[t] = "download" /\ Outstanding(t) # {}) =>
                /\ pc'[t] \in {"download", "cancelled"}
                /\ \A i \in Range(next_batch[t]) :
                      SameRow(i) /\ (i \in DOMAIN store => i \in DOMAIN store')
          /\ (next_batch'[t] # next_batch[t] \/ next_journals'[t] # next_journals[t]) =>
                \/ pc[t] = "download" /\ next_batch'[t] = next_batch[t]
                \/ /\ pc[t] \in {"sleep", "loop"} /\ Settled(t)
                   /\ next_journals'[t] = <<>>
          /\ (pc[t] # "download" /\ pc'[t] = "download") =>
                pc[t] \in {"sleep", "loop"} /\ Settled(t) ]_vars

\* the forward worker, started from journal 1, has saved its first batch, the
\* missing journal 2 and journal 3, and downloads its second, 4 and 5, a request
\* with cookies still out
C30_Witness ==
    /\ pc["run"] = "gather"
    /\ pc["fwd"] = "download" /\ next_batch["fwd"] = <<4, 5>>
    /\ last_good_id = 3 /\ 2 \in DOMAIN db /\ 3 \in DOMAIN db
    /\ db[2].error = "Journal not found"
    /\ \E i \in Outstanding("fwd") :
          i \in DOMAIN FwdJournals /\ FwdJournals[i].stage = "private"

\* the import jobs in progress: taken from the queue by a run_worker task that
\* awaits them
InProgress == {w \in Workers : w_pc[w] = "run"}

\* C31: with concurrent_tasks = N, at no moment are more than N import jobs in
\* progress, however many jobs are queued.
C31_AtMostNJobs == Cardinality(InProgress) <= ConcurrentTasks

\* N jobs are in progress at once and the queue still holds a job
C31_Witness ==
    /\ Cardinality(InProgress) = ConcurrentTasks
    /\ task_queue # <<>>
    /\ \A w, v \in InProgress : w # v => w_job[w] # w_job[v]

\* the jobs not yet completed: those queued and those in progress
Pending == Range(task_queue) \cup {w_job[w] : w \in InProgress}

\* C32: every queued job is started exactly once: while the pool runs, a job leaves the queue only
\* by being started, by one run_worker task, and is then neither in the queue
\* nor with another task; a run_worker task returns only when the queue is
\* empty, so when the pool's run has returned the queue is empty, no job is in
\* progress, and every file that was queued has been handled (it has its row, or
\* was a "registered users only" page and is deleted).
C32_EachJobOnce ==
    /\ [](/\ Len(task_queue) = Cardinality(Range(task_queue))
          /\ \A w \in InProgress : w_job[w] \notin Range(task_queue)
          /\ \A w, v \in InProgress : w # v => w_job[w] # w_job[v])
    /\ [][ /\ (task_queue' # task_queue /\ ~ImportIdle) =>
                 \E w \in Workers :
                     /\ w_pc[w] = "get" /\ w_pc'[w] = "run"
                     /\ w_job'[w] = Head(task_queue) /\ task_queue' = Tail(task_queue)
           /\ \A w \in Workers :
                 (w_pc[w] # "returned" /\ w_pc'[w] = "returned") =>
                     w_pc[w] = "get" /\ task_queue = <<>>
           /\ \A w \in Workers :
                 (w_pc[w] = "run" /\ w_pc'[w] = "get") => Pending' = Pending \ {w_job[w]} ]_vars
    /\ [](ImportCompleted =>
             /\ task_queue = <<>> /\ InProgress = {}
             /\ \A i \in ImportRange : i \in DOMAIN db)

\* the pool's run has returned after three jobs shared between the workers: the
\* private file is deleted, the two others have the rows the import wrote
C32_Witness ==
    /\ ImportCompleted
    /\ i_min_id = 0 /\ i_max_id = NONE
    /\ 1 \notin DOMAIN store
    /\ 2 \in DOMAIN db /\ db[2].error = "Journal not found"
    /\ 3 \in DOMAIN db /\ db[3].error = "Journal not found"

\* C33: when one of the two workers of run-download has ended on an exception,
\* the other is stopped only with its batch complete: no request of the batch is
\* out, and every file the batch has written has its row or is deleted again.
\* (run_download's gather raises at once and asyncio.run cancels the other task
\* where it awaits, with requests out and files written that have no row.)
C33_BatchNotInterrupted ==
    [][ \A t \in {"fwd", "bwd"} :
          (pc[t] # "cancelled" /\ pc'[t] = "cancelled") =>
              /\ Outstanding(t) = {}
              /\ \A i \in Range(next_batch[t]) : i \in DOMAIN store => i \in DOMAIN db ]_vars

\* a step of the fill-gaps pass, and the rows a step writes
GapStep == pc'["gaps"] # pc["gaps"] \/ g_todo' # g_todo
Written == {i \in DOMAIN db' : i \notin DOMAIN db \/ db'[i] # db[i]}

\* C34: with a forward worker live beside it, the fill-gaps pass writes no
\* "Journal not found" row for an ID above the forward worker's last_good_id.
\* (The pass lists the files the forward worker has just written for its batch
\* and downloads and saves the IDs missing between them.)
C34_GapFillBelowFrontier ==
    [][ GapStep =>
          \A i \in Written : db'[i].error = "Journal not found" => i <= last_good_id ]_vars

\* the journal the forward worker started from: the one row the database held
FwdStart == Min(DOMAIN db)

\* C35: while the forward worker has not ended on an exception, every ID above
\* the journal it started from and up to last_good_id has its row; each batch
\* starts at last_good_id + 1, and last_good_id never decreases.
C35_NoHoles ==
    /\ [](pc["fwd"] # "halted" =>
             \A i \in IDs : (FwdStart < i /\ i <= last_good_id) => i \in DOMAIN db)
    /\ [][ /\ last_good_id' >= last_good_id
           /\ (pc["fwd"] = "sleep" /\ pc'["fwd"] = "download") =>
                 next_batch'["fwd"][1] = last_good_id + 1 ]_vars

\* the worker, started from journal 1, is at the top of its loop after two
\* batches: journal 4 was missing and has its "Journal not found" row
C35_Witness ==
    /\ pc["fwd"] = "sleep"
    /\ FwdStart = 1 /\ last_good_id = 5
    /\ 4 \in DOMAIN db /\ db[4].error = "Journal not found"
    /\ DOMAIN db = 1..5

\* C36: with max_id given, the forward worker comes to its end (it returns, or
\* a save raises) whatever the site answers.  (A batch of which every journal is
\* missing is deleted and taken again after the empty-batch sleep: while the site
\* keeps answering "not in our database" for the IDs below max_id, the worker
\* never returns.)
C36_ForwardTerminates ==
    f_max_id # NONE => <>(pc["fwd"] \in {"done", "halted"})

\* C37: when the archive holds no file in the bounds, the fill-gaps pass
\* downloads nothing, writes no row, deletes no file, and does not end on an
\* exception.  (max() of the empty list of files raises ValueError.)
C37_EmptyRange ==
    [][ (pc["gaps"] = "start" /\ list_journals_truncated(store, g_min_id, g_max_id) = <<>>) =>
            /\ store' = store /\ db' = db
            /\ pc'["gaps"] \notin {"download", "halted"} ]_vars

\* C38: Database.update_entry on an ID that has a row leaves that row with the
\* is_deleted, archive_datetime, error, login_used and json it was given, and
\* leaves every other row as it was.  (Its SET clause is one AND expression
\* assigned to is_deleted; no other column is written.)
C38_UpdateReplaces ==
    [][ (pc'["update"] \in {"returned", "raised"} /\ next_batch'["update"] # <<>>) =>
           LET i == next_batch'["update"][1]
               r == save_row(i, store[i].page, store[i].mtime)
           IN (i \in DOMAIN db /\ ~save_raises(i, store[i].page)) =>
                 /\ DOMAIN db' = DOMAIN db
                 /\ db'[i] = r
                 /\ \A j \in DOMAIN db \ {i} : db'[j] = db[j] ]_vars

\* the site status of a journal of the batch worker t saved last shows more
\* registered users online than the cutoff
AboveCutoff(t) ==
    \E i \in DOMAIN next_infos[t] :
        next_infos[t][i] # NONE /\ next_infos[t][i] > PEAK_REGISTERED_CUTOFF

\* C39: in both workers, a batch saved, the worker sleeps peak_sleep before its
\* next batch when a site status of the batch shows more registered users
\* online than the cutoff, and goes round its loop without that sleep otherwise;
\* the peak-time sleep is entered only after a batch was saved, so never after
\* an empty forward batch.
C39_PeakSleep ==
    [][ \A t \in {"fwd", "bwd"} :
          /\ (pc[t] = "saved" /\ pc'[t] # "saved") =>
                /\ DOMAIN next_infos'[t] = Range(next_batch[t])
                /\ IF AboveCutoff(t)' THEN pc'[t] = "peak_sleep"
                   ELSE pc'[t] = (IF t = "fwd" THEN "sleep" ELSE "loop")
          /\ (pc[t] # "peak_sleep" /\ pc'[t] = "peak_sleep") => pc[t] = "saved"
          /\ (pc[t] = "peak_sleep" /\ pc'[t] # "peak_sleep") =>
                /\ pc'[t] = (IF t = "fwd" THEN "sleep" ELSE "loop")
                /\ UNCHANGED <<store, db, next_batch, next_journals>>
          /\ (pc[t] = "empty_batch_sleep") => pc'[t] \in {"empty_batch_sleep", "sleep"} ]_vars

\* the forward worker sleeps peak_sleep after its batch 4, 5, of which one site
\* status shows more registered users than the cutoff and one as many as the
\* cutoff; the backward worker has saved its batch 1, 2, whose site status shows
\* no more than the cutoff, went round its loop without the sleep and returned
C39_Witness ==
    /\ pc["fwd"] = "peak_sleep"
    /\ next_infos["fwd"] = (4 :> PEAK_REGISTERED_CUTOFF) @@ (5 :> PEAK_REGISTERED_CUTOFF + 1)
    /\ {4, 5} \subseteq DOMAIN db
    /\ pc["bwd"] = "done"
    /\ next_infos["bwd"] = (1 :> PEAK_REGISTERED_CUTOFF) @@ (2 :> NONE)
    /\ ~peak_time_active
    /\ {1, 2} \subseteq DOMAIN db

====
